---- MODULE Spec2Model ----
(***************************************************************************)
(* Model of the Course Note Taker extension: the background service worker *)
(* (src/unnamed/part_000) and the offscreen capture document               *)
(* (src/chrome-extension/offscreen.js).                                    *)
(*                                                                         *)
(* The runtime is single threaded: a handler runs to its next await, and   *)
(* other handlers run while it is suspended.  One action of this module is *)
(* one such run-to-suspension step of one handler.                         *)
(*                                                                         *)
(* The specifications share the module, one per subsystem, each leaving    *)
(* the other subsystems' variables unchanged:                              *)
(*   SpecExport     the EXPORT_TO_ONENOTE message handler                  *)
(*   SpecReceiver   the background's end of the chunked port transfer and  *)
(*                  the upload pipeline, fed by a transport that delivers  *)
(*                  a transfer's chunks in any order and with repeats      *)
(*   SpecPipeline   the upload pipeline with transcribeFromR2 and           *)
(*                  summarizeTranscription, fed with one-chunk recordings  *)
(*   SpecSender     the offscreen document's end of the transfer, with the *)
(*                  background acknowledging its chunks                    *)
(*   SpecRecording  START_RECORDING / STOP_RECORDING and the offscreen     *)
(*                  document's supervision                                 *)
(*   SpecRecorder   the offscreen document's recorder, its safety timeout  *)
(*                  and a clock                                            *)
(*   SpecRace       the readiness race of ensureOffscreenDocument and a    *)
(*                  clock                                                  *)
(***************************************************************************)
EXTENDS Integers, Sequences, FiniteSets, Bags, TLC

\* ------------------------------------------------------------------------
\* Bounds of the model
\* ------------------------------------------------------------------------

\* EXPORT_TO_ONENOTE messages delivered in one run
MaxExportRequests == 3

\* distinct request ids a caller may send (0 stands for "no requestId")
MaxRequestId == 2

\* recordings transferred in one run of the receiver
MaxTransfers == 2

\* init_upload messages delivered in one run of the receiver
MaxSessions == 2

\* port connections opened in one run
MaxPorts == 2

\* bytes of the longest recording
MaxPayloadLen == 3

\* audio_chunk messages the transport delivers a second time
MaxDuplicates == 1

\* offscreen documents created in one run of the sender
MaxDocuments == 2

\* START_RECORDING messages delivered in one run
MaxStartRequests == 2

\* STOP_RECORDING messages delivered in one run
MaxStopRequests == 1

\* startRecording calls in one run of the recorder
MaxRecordings == 3

\* RECORDING_ERROR messages of the document
MaxHostErrors == 1

\* STORE_AUDIO_CHUNK messages of one large upload, with distinct indices
MaxStagedChunks == 3

\* PREPARE_LARGE_UPLOAD messages
MaxPrepares == 2

\* pieces in an R2 key
MaxKeyLen == 3

\* session ids generated
MaxSessionIds == 2

\* STOP_RECORDING messages in the life of the session ids
MaxSessionStops == 2

\* CONFIG.AUDIO.MAX_RECORDING_DURATION, 8 minutes, in ticks of two minutes
MAX_RECORDING_DURATION == 4

\* CONFIG.AUDIO.CHUNK_SIZE, scaled down from 150 * 1024 bytes
CHUNK_SIZE == 2

\* ------------------------------------------------------------------------
\* Program constants
\* ------------------------------------------------------------------------

\* "keep only the last 20" request ids
MaxRememberedRequests == 20

NoRequestId == 0

\* CONFIG.UPLOAD.MAX_RETRIES
MAX_RETRIES == 3

\* null, for a port, an upload id, a session or a task
Null == 0

\* "a total of 3 attempts to create a working offscreen document"
EnsureAttempts == 3

\* CONFIG.UPLOAD.RETRY_DELAY_BASE, in ms
RETRY_DELAY_BASE == 2000

\* the timeout of readyPromise, 5000 ms, in seconds
READY_TIMEOUT == 5

\* the timeout of pingPromise, 3000 ms, in seconds
PING_TIMEOUT == 3

VARIABLES
  \* EXPORT_TO_ONENOTE: one record per delivered message, holding the
  \* handler invocation's local variables and its progress
  exportCalls,
  \* background script, port side
  audioPort,              \* the port of the last onConnect, or Null
  currentUploadSession,   \* the session record, sid = Null for null
  uploadInProgressId,     \* Null or the id of the upload that set it
  uploads,                \* every uploadFromPortSession execution
  sessionCount,           \* init_upload messages handled (numbers the sessions)
  \* what reaches the background script
  portCount,              \* ports connected so far
  bgOpen,                 \* ports whose background end is open
  incoming,               \* the transfer whose messages are being delivered
  duplicates,             \* audio_chunk messages delivered a second time
  \* offscreen document
  docId,                  \* the live document, Null when there is none
  senderPhase,            \* "recording", "reading" (onstop ran), "sent",
                          \* "dropped" (onstop threw)
  backgroundPort,
  pendingChunks,
  uploadComplete,
  reconnectTimers,        \* pending setTimeout(connectToBackground)
  acksHandled,            \* chunk_ack messages handled since the last reset
  transferCompletes,      \* one record per transfer_complete posted
  runtimeMessages,        \* what onstop sent with chrome.runtime.sendMessage
  \* what the offscreen document exchanges with the background
  osPortCount,            \* ports the documents opened so far
  osOpen,                 \* ports whose offscreen end is open
  toBackground,           \* messages posted by the document
  toOffscreen,            \* chunk_ack messages posted, not yet delivered (a bag)
  ackDuplicates,          \* audio_chunk messages acknowledged a second time
  \* background script, recording side
  executions,             \* every START_RECORDING request and every
                          \* handleStopRecording execution, with its position
  currentRecordingTask,   \* Null or the execution whose promise is tracked
  recordingLock,
  isRecording,
  storedIsRecording,      \* isRecording in chrome.storage.local
  offscreenCreated,
  isOffscreenInitialized,
  \* the browser and the offscreen document, recording side
  documentOpen,           \* an offscreen document exists
  documentsCreated,       \* createDocument calls that succeeded
  hostRecording,          \* the document's recorder is running
  hostMessages,           \* notifications posted by the document, not yet handled
  \* the offscreen document's recorder and its clock
  mediaRecorderState,     \* mediaRecorder.state, "inactive" also for null
  recordingAge,           \* ticks since mediaRecorder.start()
  safetyTimers,           \* ticks left of every pending safety timeout
  recordingsStarted,      \* startRecording calls that started a recorder
  forcedStops,            \* recordings stopped by a safety timeout
  \* the readiness race of one ensureOffscreenDocument
  raceAttempt,            \* the attempt of the for loop
  raceClock,              \* seconds since the two promises were made
  readyPromise,           \* "pending", "true" or "false"
  pingPromise,
  raceResult,             \* what `await Promise.race(...)` gave: documentReady
  \* large-upload staging in chrome.storage.local
  largeUpload,            \* the stored record, staged = FALSE for none
  storeHandlers,          \* one STORE_AUDIO_CHUNK handler per chunk index
  prepares,               \* PREPARE_LARGE_UPLOAD messages handled
  \* the worker's /api/transcribe and /api/summarize for one recording
  audioKey,               \* the R2 key of the recording, a sequence of pieces
  transcriptionKey,       \* the key the transcription was stored under
  summaryKey,             \* the key the summary was stored under
  r2Objects,              \* GIST_RECORDINGS: key -> what is stored there
  \* the session id of a recording, in memory, in storage and in the R2 key
  sessionId,              \* Null or the id that generateSessionId() gave
  currentTabInfo,         \* Null or the tab of the session with that id
  storedIds,              \* storage: currentSessionId and lastSessionId
  sessionRecording,       \* isRecording, as the session steps see it
  sessionHost,            \* the offscreen document and whose audio it records
  sessionStart,           \* the handleStartRecording that holds recordingLock
  sessionStop,            \* the handleStopRecording that runs
  sessionUploads,         \* recordings handed to uploadFromPortSession
  idsGenerated            \* calls of generateSessionId()

exportVars == <<exportCalls>>

bgVars == <<audioPort, currentUploadSession, uploadInProgressId, uploads,
            sessionCount>>

receiverVars == <<bgVars, portCount, bgOpen, incoming, duplicates>>

docVars == <<docId, senderPhase, backgroundPort, pendingChunks,
             uploadComplete, reconnectTimers, acksHandled, transferCompletes,
             runtimeMessages>>

senderVars == <<docVars, osPortCount, osOpen, toBackground, toOffscreen, ackDuplicates>>

recordingVars == <<executions, currentRecordingTask, recordingLock, isRecording,
                   storedIsRecording, offscreenCreated, isOffscreenInitialized,
                   documentOpen, documentsCreated, hostRecording, hostMessages>>

recorderVars == <<mediaRecorderState, recordingAge, safetyTimers,
                  recordingsStarted, forcedStops>>

raceVars == <<raceAttempt, raceClock, readyPromise, pingPromise, raceResult>>

stagingVars == <<largeUpload, storeHandlers, prepares>>

keyVars == <<audioKey, transcriptionKey, summaryKey, r2Objects>>

sessionVars == <<sessionId, currentTabInfo, storedIds, sessionRecording,
                 sessionHost, sessionStart, sessionStop, sessionUploads,
                 idsGenerated>>

vars == <<exportVars, receiverVars, senderVars, recordingVars, recorderVars,
          raceVars,
          stagingVars,
          keyVars,
          sessionVars>>

\* what a step of one subsystem leaves alone
ExportStep ==
  UNCHANGED <<receiverVars, senderVars, recordingVars, recorderVars, raceVars, stagingVars, keyVars, sessionVars>>

ReceiverStep ==
  UNCHANGED <<exportVars, senderVars, recordingVars, recorderVars, raceVars, stagingVars, keyVars, sessionVars>>

SenderStep ==
  UNCHANGED <<exportVars, receiverVars, recordingVars, recorderVars, raceVars, stagingVars, keyVars, sessionVars>>

RecordingStep ==
  UNCHANGED <<exportVars, receiverVars, senderVars, recorderVars, raceVars, stagingVars, keyVars, sessionVars>>

RecorderStep ==
  UNCHANGED <<exportVars, receiverVars, senderVars, recordingVars, raceVars, stagingVars, keyVars, sessionVars>>

RaceStep ==
  UNCHANGED <<exportVars, receiverVars, senderVars, recordingVars, recorderVars,
              stagingVars, keyVars, sessionVars>>

StagingStep ==
  UNCHANGED <<exportVars, receiverVars, senderVars, recordingVars, recorderVars,
              raceVars, keyVars, sessionVars>>

KeyStep ==
  UNCHANGED <<exportVars, receiverVars, senderVars, recordingVars, recorderVars,
              raceVars, stagingVars, sessionVars>>

SessionStep ==
  UNCHANGED <<exportVars, receiverVars, senderVars, recordingVars, recorderVars,
              raceVars, stagingVars, keyVars>>

\* ========================================================================
\* EXPORT_TO_ONENOTE
\* ========================================================================

RequestIds == 0..MaxRequestId

\* `let oneNoteExportInProgress = false` is a statement of the listener's
\* body: every delivered message gets its own variable, initially false.
NewOneNoteExportInProgress == FALSE

\* `let processedRequestIds = new Set()`, likewise one per delivered message.
\* A JS Set keeps insertion order: a sequence without repetitions.
NewProcessedRequestIds == <<>>

SetHas(s, x) == \E k \in 1..Len(s) : s[k] = x

SetAdd(s, x) == IF SetHas(s, x) THEN s ELSE Append(s, x)

\* processedRequestIds.add(id), then drop the oldest beyond the last 20
RememberRequestId(s, id) ==
  LET added == SetAdd(s, id)
  IN  IF Len(added) > MaxRememberedRequests
        THEN SubSeq(added, Len(added) - MaxRememberedRequests + 1, Len(added))
        ELSE added

\* an export that passed the guards and has not answered yet
ExportInFlight(c) == c.pc = "fetching"

\* an export that passed the guards and has answered (success or error)
ExportCompleted(c) == c.pc = "responded" /\ c.response \in {"success", "error"}

\* The handler from its first line to its first suspension (the first fetch).
OnExportToOneNote(requestId, hasToken, hasContent) ==
  /\ Len(exportCalls) < MaxExportRequests
  /\ LET oneNoteExportInProgress == NewOneNoteExportInProgress
         processedRequestIds == NewProcessedRequestIds
         \* what the earlier messages had done when this one arrived
         replay == \E j \in 1..Len(exportCalls) :
                      /\ exportCalls[j].requestId = requestId
                      /\ ExportCompleted(exportCalls[j])
         concurrent == \E j \in 1..Len(exportCalls) :
                      /\ exportCalls[j].requestId /= requestId
                      /\ ExportInFlight(exportCalls[j])
         base == [requestId |-> requestId,
                  replayOfCompleted |-> requestId /= NoRequestId /\ replay,
                  arrivedDuringExport |-> concurrent,
                  oneNoteExportInProgress |-> oneNoteExportInProgress,
                  processedRequestIds |-> processedRequestIds,
                  upstreamCalls |-> 0,
                  pc |-> "responded",
                  response |-> "none"]
     IN
       IF requestId /= NoRequestId /\ SetHas(processedRequestIds, requestId)
         THEN exportCalls' = Append(exportCalls,
                [base EXCEPT !.response = "Request already processed"])
       ELSE IF oneNoteExportInProgress
         THEN exportCalls' = Append(exportCalls,
                [base EXCEPT !.response = "Export already in progress"])
       ELSE
         LET remembered == IF requestId /= NoRequestId
                             THEN RememberRequestId(processedRequestIds, requestId)
                             ELSE processedRequestIds
         IN  IF ~hasToken
               THEN exportCalls' = Append(exportCalls,
                      [base EXCEPT !.processedRequestIds = remembered,
                                   !.response = "No access token provided"])
             ELSE IF ~hasContent
               THEN exportCalls' = Append(exportCalls,
                      [base EXCEPT !.processedRequestIds = remembered,
                                   !.response = "No content provided"])
             ELSE exportCalls' = Append(exportCalls,
                      [base EXCEPT !.processedRequestIds = remembered,
                                   !.oneNoteExportInProgress = TRUE,
                                   !.upstreamCalls = 1,
                                   !.pc = "fetching"])
  /\ ExportStep

\* the promise chain's last .then: the page was created
ExportSucceeds(i) ==
  /\ i \in 1..Len(exportCalls)
  /\ ExportInFlight(exportCalls[i])
  /\ exportCalls' = [exportCalls EXCEPT ![i].oneNoteExportInProgress = FALSE,
                                        ![i].pc = "responded",
                                        ![i].response = "success"]
  /\ ExportStep

\* the promise chain's .catch: a fetch failed or the API answered an error
ExportFails(i) ==
  /\ i \in 1..Len(exportCalls)
  /\ ExportInFlight(exportCalls[i])
  /\ exportCalls' = [exportCalls EXCEPT ![i].oneNoteExportInProgress = FALSE,
                                        ![i].pc = "responded",
                                        ![i].response = "error"]
  /\ ExportStep

\* ========================================================================
\* Chunked port transfer: the background script's end
\* ========================================================================

Min(a, b) == IF a < b THEN a ELSE b

Max(a, b) == IF a > b THEN a ELSE b

\* the recording's bytes; every recording holds different ones
Payload(timestamp, len) == [k \in 1..len |-> 10 * timestamp + k]

\* a count of chunks that leaves out the last, shorter one
TotalChunks_Floor(len) == len \div CHUNK_SIZE

\* Math.ceil(uint8Array.length / CHUNK_SIZE)
TotalChunks(len) == (len + CHUNK_SIZE - 1) \div CHUNK_SIZE

\* uint8Array.slice(i * CHUNK_SIZE, Math.min(i * CHUNK_SIZE + CHUNK_SIZE, length))
ChunkOf(bytes, i) ==
  SubSeq(bytes, i * CHUNK_SIZE + 1, Min(i * CHUNK_SIZE + CHUNK_SIZE, Len(bytes)))

\* new Uint8Array(message.chunk) of the array made by Array.from(chunk):
\* every element is taken modulo 256
Uint8ArrayOf(array) == [k \in 1..Len(array) |-> array[k] % 256]

\* an array slot that was never assigned
Hole == <<>>

\* what the Blob constructor makes of an unassigned slot: the text
\* "undefined", here one byte that no recording contains
UndefinedByte == 0

NoSession ==
  [sid |-> Null, timestamp |-> 0, size |-> 0, totalChunks |-> 0,
   receivedChunks |-> 0, chunks |-> <<>>, stored |-> {}]

\* an init that keeps the slots of the session it replaces
NewSlots_KeepOld(totalChunks) ==
  [k \in 1..totalChunks |->
     IF k <= Len(currentUploadSession.chunks) THEN currentUploadSession.chunks[k]
     ELSE Hole]

\* new Array(totalChunks)
NewSlots(totalChunks) == [k \in 1..totalChunks |-> Hole]

\* chunks[chunkIndex] = data; assigning past the end lengthens the array
SetSlot(chunks, chunkIndex, data) ==
  [k \in 1..Max(Len(chunks), chunkIndex + 1) |->
     IF k = chunkIndex + 1 THEN data
     ELSE IF k <= Len(chunks) THEN chunks[k] ELSE Hole]

\* new Blob(chunks): the slots' bytes in index order
RECURSIVE Assemble(_)
Assemble(chunks) ==
  IF chunks = <<>> THEN <<>>
  ELSE (IF Head(chunks) = Hole THEN <<UndefinedByte>> ELSE Head(chunks))
       \o Assemble(Tail(chunks))

\* a guard that never refuses
UploadGuardFree_Always == TRUE

\* `if (!uploadInProgressId)` of handleTransferComplete and onDisconnect
UploadGuardFree == uploadInProgressId = Null

\* processPortUpload, with the synchronous start of uploadFromPortSession
\* (the Blob) and of prepareR2UploadMetadata (the session's timestamp)
ProcessPortUpload(session) ==
  IF session.sid = Null \/ session.receivedChunks /= session.totalChunks
    THEN UNCHANGED <<uploadInProgressId, uploads>>
    ELSE /\ uploadInProgressId' = Len(uploads) + 1
         /\ uploads' = Append(uploads,
              [id |-> Len(uploads) + 1,
               sid |-> session.sid,
               timestamp |-> session.timestamp,
               size |-> session.size,
               stored |-> session.stored,
               blob |-> Assemble(session.chunks),
               pc |-> "metadata",
               retryCount |-> 0,
               outcome |-> "none",
               attempts |-> 0,
               delay |-> 0,
               warning |-> FALSE,
               notified |-> FALSE,
               artifact |-> <<>>,
               transcribe |-> "none",
               transcriptions |-> 0,
               transcribeKey |-> 0,
               summarize |-> "none",
               summaries |-> 0])

\* handleInitUpload.  The init_ack it posts is read by no listener of the
\* document and is not modelled.
HandleInitUpload(timestamp, size, totalChunks) ==
  /\ currentUploadSession' =
       [sid |-> sessionCount + 1,
        timestamp |-> timestamp,
        size |-> size,
        totalChunks |-> totalChunks,
        receivedChunks |-> 0,
        chunks |-> NewSlots(totalChunks),
        stored |-> {}]
  /\ sessionCount' = sessionCount + 1
  /\ UNCHANGED <<audioPort, uploadInProgressId, uploads>>

\* currentUploadSession.receivedChunks++
CountChunk(session, chunkIndex) == session.receivedChunks + 1

\* handleAudioChunk; acked says whether a chunk_ack was posted
HandleAudioChunk(chunkIndex, chunk) ==
  IF currentUploadSession.sid = Null
    THEN UNCHANGED <<audioPort, currentUploadSession, uploadInProgressId,
                     uploads, sessionCount>>
    ELSE
      LET session == [currentUploadSession EXCEPT
                        !.chunks = SetSlot(@, chunkIndex, Uint8ArrayOf(chunk)),
                        !.receivedChunks = CountChunk(currentUploadSession, chunkIndex),
                        !.stored = @ \cup {chunkIndex}]
      IN  /\ currentUploadSession' = session
          /\ IF session.receivedChunks = session.totalChunks /\ audioPort = Null
               THEN ProcessPortUpload(session)
               ELSE UNCHANGED <<uploadInProgressId, uploads>>
          /\ UNCHANGED <<audioPort, sessionCount>>

\* `if (audioPort) audioPort.postMessage({type: 'chunk_ack', ...})`
ChunkAckPosted == currentUploadSession.sid /= Null /\ audioPort /= Null

\* handleTransferComplete
HandleTransferComplete ==
  /\ IF UploadGuardFree
       THEN ProcessPortUpload(currentUploadSession)
       ELSE UNCHANGED <<uploadInProgressId, uploads>>
  /\ UNCHANGED <<audioPort, currentUploadSession, sessionCount>>

\* ------------------------------------------------------------------------
\* What the ports deliver.  A document posts init_upload and then its chunks
\* on one port; the chunks of the transfer announced last arrive in any
\* order and up to MaxDuplicates of them arrive twice.  transfer_complete
\* is posted by the document when its count of chunk_ack messages reaches
\* the number of chunks, and once more for every chunk_ack after that.
\* ------------------------------------------------------------------------

NoTransfer == [timestamp |-> 0, size |-> 0, delivered |-> <<>>, acks |-> 0, completes |-> 0]

\* chrome.runtime.onConnect
OnConnect ==
  /\ portCount < MaxPorts
  /\ portCount' = portCount + 1
  /\ bgOpen' = bgOpen \cup {portCount + 1}
  /\ audioPort' = portCount + 1
  /\ UNCHANGED <<currentUploadSession, uploadInProgressId, uploads, sessionCount,
                 incoming, duplicates>>
  /\ ReceiverStep

\* port.onMessage, init_upload of a new recording
OnInitUpload(len) ==
  /\ bgOpen /= {}
  /\ incoming.timestamp < MaxTransfers
  /\ sessionCount < MaxSessions
  /\ incoming' = [timestamp |-> incoming.timestamp + 1,
                  size |-> len,
                  delivered |-> [k \in 1..TotalChunks(len) |-> 0],
                  acks |-> 0,
                  completes |-> 0]
  /\ HandleInitUpload(incoming.timestamp + 1, len, TotalChunks(len))
  /\ UNCHANGED <<portCount, bgOpen, duplicates>>
  /\ ReceiverStep

\* port.onMessage, the same init_upload once more
OnInitUploadAgain ==
  /\ bgOpen /= {}
  /\ incoming.timestamp /= 0
  /\ sessionCount < MaxSessions
  /\ HandleInitUpload(incoming.timestamp, incoming.size, TotalChunks(incoming.size))
  /\ UNCHANGED <<portCount, bgOpen, incoming, duplicates>>
  /\ ReceiverStep

\* port.onMessage, audio_chunk
OnAudioChunk(chunkIndex) ==
  /\ bgOpen /= {}
  /\ incoming.timestamp /= 0
  /\ chunkIndex \in 0..(Len(incoming.delivered) - 1)
  /\ \/ /\ incoming.delivered[chunkIndex + 1] = 0
        /\ UNCHANGED duplicates
     \/ /\ incoming.delivered[chunkIndex + 1] > 0
        /\ duplicates < MaxDuplicates
        /\ duplicates' = duplicates + 1
  /\ incoming' = [incoming EXCEPT
                    !.delivered[chunkIndex + 1] = @ + 1,
                    !.acks = IF ChunkAckPosted THEN @ + 1 ELSE @]
  /\ HandleAudioChunk(chunkIndex,
                      ChunkOf(Payload(incoming.timestamp, incoming.size), chunkIndex))
  /\ UNCHANGED <<portCount, bgOpen>>
  /\ ReceiverStep

\* port.onMessage, transfer_complete
OnTransferComplete ==
  /\ bgOpen /= {}
  /\ incoming.timestamp /= 0
  /\ incoming.acks >= Len(incoming.delivered) + incoming.completes
  /\ incoming' = [incoming EXCEPT !.completes = @ + 1]
  /\ HandleTransferComplete
  /\ UNCHANGED <<portCount, bgOpen, duplicates>>
  /\ ReceiverStep

\* port.onDisconnect
OnDisconnect(p) ==
  /\ p \in bgOpen
  /\ bgOpen' = bgOpen \ {p}
  /\ audioPort' = Null
  /\ IF /\ currentUploadSession.sid /= Null
        /\ Len(currentUploadSession.chunks) > 0
        /\ currentUploadSession.receivedChunks = currentUploadSession.totalChunks
        /\ UploadGuardFree
       THEN ProcessPortUpload(currentUploadSession)
       ELSE UNCHANGED <<uploadInProgressId, uploads>>
  /\ UNCHANGED <<currentUploadSession, sessionCount, portCount, incoming, duplicates>>
  /\ ReceiverStep

\* ------------------------------------------------------------------------
\* uploadFromPortSession after its first await
\* ------------------------------------------------------------------------

UploadRunning(u) == u \in 1..Len(uploads) /\ uploads[u].outcome = "none"

\* The function's end, reached on every path: `currentUploadSession = null`,
\* then processPortUpload's .finally in the same turn of the event loop.
\* The record of a finished execution keeps what it did, not its loop
\* counter.
UploadEnds(u, finished) ==
  /\ uploads' = [uploads EXCEPT ![u] = [finished EXCEPT !.pc = "done", !.retryCount = 0]]
  /\ currentUploadSession' = NoSession
  /\ uploadInProgressId' = Null

\* a loop that allows one attempt more
RetriesExhausted_OneMore(retryCount) == retryCount >= MAX_RETRIES + 1

\* `retryCount >= MAX_RETRIES`, the negation of the loop's condition
RetriesExhausted(retryCount) == retryCount >= MAX_RETRIES

\* a delay that does not grow
BackoffDelay_Flat(retryCount) == RETRY_DELAY_BASE

\* Math.pow(2, retryCount) * CONFIG.UPLOAD.RETRY_DELAY_BASE
BackoffDelay(retryCount) == (2 ^ retryCount) * RETRY_DELAY_BASE

\* The loop's catch: retryCount++, then RECORDING_WARNING and the end of the
\* loop, or the wait before the next pass.
UploadAttemptFailed(u) ==
  LET retryCount == uploads[u].retryCount + 1
  IN  IF RetriesExhausted(retryCount)
        THEN UploadEnds(u, [uploads[u] EXCEPT !.warning = TRUE, !.outcome = "failed"])
        ELSE /\ uploads' = [uploads EXCEPT ![u].pc = "backoff",
                                           ![u].retryCount = retryCount,
                                           ![u].delay = @ + BackoffDelay(retryCount)]
             /\ UNCHANGED <<currentUploadSession, uploadInProgressId>>

\* One pass of the retry loop up to its await.  Evaluating
\* currentUploadSession.mimeType for uploadToR2's argument throws when the
\* session is null; the loop's catch counts that as a failed attempt.
UploadAttempt(u) ==
  IF currentUploadSession.sid /= Null
    THEN /\ uploads' = [uploads EXCEPT ![u].pc = "put", ![u].attempts = @ + 1]
         /\ UNCHANGED <<currentUploadSession, uploadInProgressId>>
    ELSE UploadAttemptFailed(u)

\* prepareR2UploadMetadata resumes with what storage holds; without a
\* token, or with the session gone when the metadata reads its timestamp,
\* it throws and uploadFromPortSession ends in its outer catch
UploadMetadataRead(u, hasToken) ==
  /\ UploadRunning(u)
  /\ uploads[u].pc = "metadata"
  /\ IF hasToken /\ currentUploadSession.sid /= Null
       THEN UploadAttempt(u)
       ELSE UploadEnds(u, [uploads[u] EXCEPT !.outcome = "failed"])
  /\ UNCHANGED <<audioPort, sessionCount, portCount, bgOpen, incoming, duplicates>>
  /\ ReceiverStep

\* uploadToR2 resolves: the recording is stored, RECORDING_UPLOAD_COMPLETE
\* is sent, transcribeFromR2(key) is put on a timer and the loop ends
UploadPutSucceeds(u) ==
  /\ UploadRunning(u)
  /\ uploads[u].pc = "put"
  /\ UploadEnds(u, [uploads[u] EXCEPT !.outcome = "success",
                                      !.notified = TRUE,
                                      !.artifact = uploads[u].blob,
                                      !.transcribe = "scheduled"])
  /\ UNCHANGED <<audioPort, sessionCount, portCount, bgOpen, incoming, duplicates>>
  /\ ReceiverStep

\* uploadToR2 rejects
UploadPutFails(u) ==
  /\ UploadRunning(u)
  /\ uploads[u].pc = "put"
  /\ UploadAttemptFailed(u)
  /\ UNCHANGED <<audioPort, sessionCount, portCount, bgOpen, incoming, duplicates>>
  /\ ReceiverStep

\* the backoff timer fires
UploadBackoffElapsed(u) ==
  /\ UploadRunning(u)
  /\ uploads[u].pc = "backoff"
  /\ UploadAttempt(u)
  /\ UNCHANGED <<audioPort, sessionCount, portCount, bgOpen, incoming, duplicates>>
  /\ ReceiverStep

\* ------------------------------------------------------------------------
\* transcribeFromR2 and summarizeTranscription
\* ------------------------------------------------------------------------

\* the R2 key of an upload: complete-recording-<timestamp>
KeyOf(upload) == upload.timestamp

\* a setTimeout callback has run: the timer is spent and the function waits
\* for chrome.storage.local.get
AfterTimer == "running"

\* a stage's failure that fails the upload
OutcomeAfterStage_Fails(outcome, ok) == IF ok THEN outcome ELSE "failed"

\* what the end of transcribeFromR2 or summarizeTranscription does to the
\* upload's outcome: they report with notifications and logs only
OutcomeAfterStage(outcome, ok) == outcome

\* transcribeFromR2 and summarizeTranscription rethrow what they catch and
\* their callers only notify or log
AfterStageFailure == "failed"

\* the frame of the steps of the two stages
StageFrame ==
  UNCHANGED <<audioPort, currentUploadSession, uploadInProgressId, sessionCount,
              portCount, bgOpen, incoming, duplicates>>

\* the timer set after the upload fires: transcribeFromR2(key) runs to its
\* read of the token
TranscribeStarts(u) ==
  /\ u \in 1..Len(uploads)
  /\ uploads[u].transcribe = "scheduled"
  /\ uploads' = [uploads EXCEPT ![u].transcribe = AfterTimer]
  /\ StageFrame
  /\ ReceiverStep

\* transcribeFromR2 has read storage: without a token it throws, with one
\* it asks r2-get for the recording
TranscribeTokenRead(u, hasToken) ==
  /\ u \in 1..Len(uploads)
  /\ uploads[u].transcribe = "running"
  /\ uploads' = [uploads EXCEPT
                   ![u].transcribe = IF hasToken THEN "get" ELSE AfterStageFailure,
                   ![u].outcome = OutcomeAfterStage(@, hasToken)]
  /\ StageFrame
  /\ ReceiverStep

\* r2-get has answered: a response that is not ok throws, otherwise the
\* recording is posted to /api/transcribe with the key (the read of the
\* response's blob is taken with the response)
TranscribeGetEnds(u, ok) ==
  /\ u \in 1..Len(uploads)
  /\ uploads[u].transcribe = "get"
  /\ uploads' = [uploads EXCEPT
                   ![u].transcribe = IF ok THEN "service" ELSE AfterStageFailure,
                   ![u].transcriptions = IF ok THEN @ + 1 ELSE @,
                   ![u].transcribeKey = IF ok THEN KeyOf(uploads[u]) ELSE @,
                   ![u].outcome = OutcomeAfterStage(@, ok)]
  /\ StageFrame
  /\ ReceiverStep

\* /api/transcribe has answered: with result.success transcribeFromR2 puts
\* summarizeTranscription(key) on a timer; after a response that is not ok
\* or an unsuccessful result nothing follows
TranscribeEnds(u, ok) ==
  /\ u \in 1..Len(uploads)
  /\ uploads[u].transcribe = "service"
  /\ uploads' = [uploads EXCEPT
                   ![u].transcribe = IF ok THEN "ok" ELSE AfterStageFailure,
                   ![u].summarize = IF ok THEN "scheduled" ELSE @,
                   ![u].outcome = OutcomeAfterStage(@, ok)]
  /\ StageFrame
  /\ ReceiverStep

\* the timer set after the transcription fires: summarizeTranscription(key)
\* runs to its read of the token
SummarizeStarts(u) ==
  /\ u \in 1..Len(uploads)
  /\ uploads[u].summarize = "scheduled"
  /\ uploads' = [uploads EXCEPT ![u].summarize = AfterTimer]
  /\ StageFrame
  /\ ReceiverStep

\* summarizeTranscription has read storage: without a token it throws, with
\* one it posts the key to /api/summarize
SummarizeTokenRead(u, hasToken) ==
  /\ u \in 1..Len(uploads)
  /\ uploads[u].summarize = "running"
  /\ uploads' = [uploads EXCEPT
                   ![u].summarize = IF hasToken THEN "service" ELSE AfterStageFailure,
                   ![u].summaries = IF hasToken THEN @ + 1 ELSE @,
                   ![u].outcome = OutcomeAfterStage(@, hasToken)]
  /\ StageFrame
  /\ ReceiverStep

\* /api/summarize has answered
SummarizeEnds(u, ok) ==
  /\ u \in 1..Len(uploads)
  /\ uploads[u].summarize = "service"
  /\ uploads' = [uploads EXCEPT
                   ![u].summarize = IF ok THEN "ok" ELSE AfterStageFailure,
                   ![u].outcome = OutcomeAfterStage(@, ok)]
  /\ StageFrame
  /\ ReceiverStep

InitReceiver ==
  /\ audioPort = Null
  /\ currentUploadSession = NoSession
  /\ uploadInProgressId = Null
  /\ uploads = <<>>
  /\ sessionCount = 0
  /\ portCount = 0
  /\ bgOpen = {}
  /\ incoming = NoTransfer
  /\ duplicates = 0

Ports == 1..MaxPorts

ChunkIndexes == 0..(TotalChunks(MaxPayloadLen) - 1)

NextReceiver ==
  \/ OnConnect
  \/ \E len \in 1..MaxPayloadLen : OnInitUpload(len)
  \/ OnInitUploadAgain
  \/ \E i \in ChunkIndexes : OnAudioChunk(i)
  \/ OnTransferComplete
  \/ \E p \in Ports : OnDisconnect(p)
  \/ \E u \in 1..Len(uploads), t \in BOOLEAN : UploadMetadataRead(u, t)
  \/ \E u \in 1..Len(uploads) : UploadPutSucceeds(u)
  \/ \E u \in 1..Len(uploads) : UploadPutFails(u)
  \/ \E u \in 1..Len(uploads) : UploadBackoffElapsed(u)

\* The upload pipeline with the stages that follow it, fed with recordings
\* of one chunk
NextPipeline ==
  \/ OnConnect
  \/ \E len \in 1..CHUNK_SIZE : OnInitUpload(len)
  \/ \E i \in ChunkIndexes : OnAudioChunk(i)
  \/ OnTransferComplete
  \/ \E p \in Ports : OnDisconnect(p)
  \/ \E u \in 1..Len(uploads), t \in BOOLEAN : UploadMetadataRead(u, t)
  \/ \E u \in 1..Len(uploads) : UploadPutSucceeds(u)
  \/ \E u \in 1..Len(uploads) : UploadPutFails(u)
  \/ \E u \in 1..Len(uploads) : UploadBackoffElapsed(u)
  \/ \E u \in 1..Len(uploads) : TranscribeStarts(u)
  \/ \E u \in 1..Len(uploads), hasToken \in BOOLEAN : TranscribeTokenRead(u, hasToken)
  \/ \E u \in 1..Len(uploads), ok \in BOOLEAN : TranscribeGetEnds(u, ok)
  \/ \E u \in 1..Len(uploads), ok \in BOOLEAN : TranscribeEnds(u, ok)
  \/ \E u \in 1..Len(uploads) : SummarizeStarts(u)
  \/ \E u \in 1..Len(uploads), hasToken \in BOOLEAN : SummarizeTokenRead(u, hasToken)
  \/ \E u \in 1..Len(uploads), ok \in BOOLEAN : SummarizeEnds(u, ok)

\* ========================================================================
\* Chunked port transfer: the offscreen document's end
\* ========================================================================

\* connectToBackground: chrome.runtime.connect and the listeners
ConnectToBackground ==
  /\ osPortCount' = osPortCount + 1
  /\ backgroundPort' = osPortCount + 1
  /\ osOpen' = osOpen \cup {osPortCount + 1}

\* chrome.offscreen.createDocument after closing the document there was:
\* offscreen.js runs from its first line and connects.  The old document's
\* variables, listeners and timers are gone with it.
CreateDocument ==
  /\ docId < MaxDocuments
  /\ osPortCount < MaxPorts
  /\ docId' = docId + 1
  /\ senderPhase' = "recording"
  /\ osPortCount' = osPortCount + 1
  /\ backgroundPort' = osPortCount + 1
  /\ osOpen' = {osPortCount + 1}
  /\ pendingChunks' = 0
  /\ uploadComplete' = FALSE
  /\ reconnectTimers' = 0
  /\ acksHandled' = 0
  /\ toOffscreen' = EmptyBag
  /\ UNCHANGED <<transferCompletes, runtimeMessages, toBackground, ackDuplicates>>
  /\ SenderStep

\* the reconnect timer of backgroundPort.onDisconnect fires
ReconnectTimerFires ==
  /\ docId /= Null
  /\ reconnectTimers > 0
  /\ osPortCount < MaxPorts
  /\ reconnectTimers' = reconnectTimers - 1
  /\ ConnectToBackground
  /\ UNCHANGED <<docId, senderPhase, pendingChunks, uploadComplete, acksHandled,
                 transferCompletes, runtimeMessages, toBackground, toOffscreen,
                 ackDuplicates>>
  /\ SenderStep

\* "Fallback to message API - but we'll handle that elsewhere": onstop
\* throws "Could not establish port connection" and its catch sends
\* RECORDING_ERROR
WithoutPort == "RECORDING_ERROR"

\* mediaRecorder.onstop with a non-empty recording: connect if there is no
\* port, then start reading the file.  chrome.runtime.connect may throw,
\* which leaves backgroundPort null; onstop then sends what WithoutPort
\* says, reads nothing and empties audioChunks.
RecorderOnStop(connects) ==
  /\ docId /= Null
  /\ senderPhase = "recording"
  /\ IF backgroundPort /= Null
       THEN /\ senderPhase' = "reading"
            /\ UNCHANGED <<osPortCount, backgroundPort, osOpen, runtimeMessages>>
       ELSE IF connects /\ osPortCount < MaxPorts
         THEN /\ senderPhase' = "reading"
              /\ ConnectToBackground
              /\ UNCHANGED runtimeMessages
         ELSE /\ senderPhase' = "dropped"
              /\ runtimeMessages' = runtimeMessages \cup {[doc |-> docId, type |-> WithoutPort]}
              /\ UNCHANGED <<osPortCount, backgroundPort, osOpen>>
  /\ UNCHANGED <<docId, pendingChunks, uploadComplete, reconnectTimers, acksHandled,
                 transferCompletes, toBackground, toOffscreen, ackDuplicates>>
  /\ SenderStep

\* the messages of reader.onload's loop
ChunkMessages(port, bytes) ==
  {[port |-> port, type |-> "audio_chunk", chunkIndex |-> i,
    totalChunks |-> TotalChunks(Len(bytes)), chunk |-> ChunkOf(bytes, i),
    timestamp |-> 0, nth |-> 0] : i \in 0..(TotalChunks(Len(bytes)) - 1)}

\* reader.onload: init_upload, then every chunk, in one turn.  With no port
\* the first postMessage throws after the counters were reset.
ReaderOnLoad(len) ==
  /\ docId /= Null
  /\ senderPhase = "reading"
  /\ senderPhase' = "sent"
  /\ acksHandled' = 0
  /\ IF backgroundPort = Null
       THEN /\ uploadComplete' = FALSE
            /\ pendingChunks' = 0
            /\ UNCHANGED toBackground
       ELSE /\ uploadComplete' = TRUE
            /\ pendingChunks' = TotalChunks(len)
            /\ toBackground' = toBackground
                 \cup {[port |-> backgroundPort, type |-> "init_upload",
                        chunkIndex |-> 0, totalChunks |-> TotalChunks(len),
                        chunk |-> <<>>, timestamp |-> docId, nth |-> 0]}
                 \cup ChunkMessages(backgroundPort, Payload(docId, len))
  /\ UNCHANGED <<docId, backgroundPort, reconnectTimers, transferCompletes,
                 runtimeMessages, osPortCount, osOpen, toOffscreen, ackDuplicates>>
  /\ SenderStep

\* an acknowledgement that counts twice
AfterAck_Twice(pending) == IF pending - 2 <= 0 THEN 0 ELSE pending - 2

\* pendingChunks--; if (pendingChunks <= 0) pendingChunks = 0
AfterAck(pending) == IF pending - 1 <= 0 THEN 0 ELSE pending - 1

\* `if (uploadComplete && pendingChunks === 0)`
ReadyToComplete(complete, pending) == complete /\ pending = 0

\* backgroundPort.onMessage for a chunk_ack.  backgroundPort.postMessage
\* throws when the port is null.
OsOnChunkAck(m) ==
  /\ docId /= Null
  /\ BagIn(m, toOffscreen)
  /\ m.port \in osOpen
  /\ toOffscreen' = toOffscreen (-) SetToBag({m})
  /\ pendingChunks' = AfterAck(pendingChunks)
  /\ acksHandled' = acksHandled + 1
  /\ IF ReadyToComplete(uploadComplete, pendingChunks') /\ backgroundPort /= Null
       THEN /\ transferCompletes' = Append(transferCompletes,
                  [doc |-> docId,
                   uploadComplete |-> uploadComplete,
                   pendingChunks |-> pendingChunks',
                   acksHandled |-> acksHandled',
                   phase |-> senderPhase,
                   duplicates |-> ackDuplicates])
            /\ toBackground' = toBackground
                 \cup {[port |-> backgroundPort, type |-> "transfer_complete",
                        chunkIndex |-> 0, totalChunks |-> 0, chunk |-> <<>>,
                        timestamp |-> docId, nth |-> Len(transferCompletes) + 1]}
       ELSE UNCHANGED <<transferCompletes, toBackground>>
  /\ UNCHANGED <<docId, senderPhase, backgroundPort, uploadComplete,
                 reconnectTimers, runtimeMessages, osPortCount, osOpen, ackDuplicates>>
  /\ SenderStep

\* backgroundPort.onDisconnect; what the port still carried is lost
OsOnDisconnect(p) ==
  /\ docId /= Null
  /\ p \in osOpen
  /\ osOpen' = osOpen \ {p}
  /\ backgroundPort' = Null
  /\ reconnectTimers' = IF pendingChunks > 0 THEN reconnectTimers + 1 ELSE reconnectTimers
  /\ toBackground' = {m \in toBackground : m.type /= "audio_chunk" \/ m.port /= p}
  /\ toOffscreen' = [m \in {x \in BagToSet(toOffscreen) : x.port /= p} |-> toOffscreen[m]]
  /\ UNCHANGED <<docId, senderPhase, pendingChunks, uploadComplete,
                 acksHandled, transferCompletes, runtimeMessages, osPortCount,
                 ackDuplicates>>
  /\ SenderStep

\* The background's handleAudioChunk, seen from the document: a chunk that
\* is delivered is acknowledged on the port.
BackgroundAcks(m) ==
  /\ m \in toBackground
  /\ m.type = "audio_chunk"
  /\ m.port \in osOpen
  /\ toBackground' = toBackground \ {m}
  /\ toOffscreen' = toOffscreen (+) SetToBag({[port |-> m.port, type |-> "chunk_ack",
                                               chunkIndex |-> m.chunkIndex]})
  /\ UNCHANGED <<docVars, osPortCount, osOpen, ackDuplicates>>
  /\ SenderStep

\* The same for a chunk that the transport delivers twice: it is
\* acknowledged now and stays in flight.
BackgroundAcksDuplicate(m) ==
  /\ m \in toBackground
  /\ m.type = "audio_chunk"
  /\ m.port \in osOpen
  /\ ackDuplicates < MaxDuplicates
  /\ ackDuplicates' = ackDuplicates + 1
  /\ toOffscreen' = toOffscreen (+) SetToBag({[port |-> m.port, type |-> "chunk_ack",
                                               chunkIndex |-> m.chunkIndex]})
  /\ UNCHANGED <<docVars, osPortCount, osOpen, toBackground>>
  /\ SenderStep

InitSender ==
  /\ docId = Null
  /\ senderPhase = "recording"
  /\ backgroundPort = Null
  /\ pendingChunks = 0
  /\ uploadComplete = FALSE
  /\ reconnectTimers = 0
  /\ acksHandled = 0
  /\ transferCompletes = <<>>
  /\ runtimeMessages = {}
  /\ osPortCount = 0
  /\ osOpen = {}
  /\ toBackground = {}
  /\ toOffscreen = EmptyBag
  /\ ackDuplicates = 0

NextSender ==
  \/ CreateDocument
  \/ \E connects \in BOOLEAN : RecorderOnStop(connects)
  \/ \E len \in 1..MaxPayloadLen : ReaderOnLoad(len)
  \/ \E m \in toBackground : BackgroundAcks(m)
  \/ \E m \in toBackground : BackgroundAcksDuplicate(m)
  \/ \E m \in BagToSet(toOffscreen) : OsOnChunkAck(m)
  \/ \E p \in Ports : OsOnDisconnect(p)
  \/ ReconnectTimerFires

\* ========================================================================
\* START_RECORDING / STOP_RECORDING and the offscreen document
\* ========================================================================

\* an execution that is not one; its fields are those of every execution
NoExecution ==
  [kind |-> "start", pc |-> "done", after |-> "none", attempt |-> 0,
   ran |-> FALSE, joinedTo |-> Null, caller |-> Null, pendingStart |-> Null,
   idle |-> FALSE,
   result |-> "none", response |-> "none", created |-> 0,
   ensureFailed |-> FALSE]

Executions == 1..Len(executions)

StartRequests == {e \in Executions : executions[e].kind = "start"}

\* STOP_RECORDING messages, not the handleStopRecording that a start calls
StopRequests ==
  {e \in Executions : executions[e].kind = "stop" /\ executions[e].caller = Null}

\* the START_RECORDING requests that were not answered yet
PendingStarts == {e \in StartRequests : executions[e].response = "none"}

\* the earliest pending START_RECORDING request, Null when there is none
OriginalStart ==
  IF PendingStarts = {} THEN Null
  ELSE CHOOSE e \in PendingStarts : \A f \in PendingStarts : e <= f

\* nothing is recording, no START_RECORDING or STOP_RECORDING is being
\* handled and no notification of the document is on its way
NothingRecording ==
  /\ ~isRecording
  /\ ~hostRecording
  /\ hostMessages = {}
  /\ \A e \in Executions : executions[e].pc = "done"

\* `if (recordingLock) throw` at the head of handleStartRecording
StartGuardPasses == ~recordingLock

\* the document posts a notification to the background
HostPosts(type) == hostMessages' = hostMessages \cup {type}

\* the document handles STOP_RECORDING, or is closed: its recorder stops
HostStops ==
  /\ hostRecording' = FALSE
  /\ IF documentOpen /\ hostRecording
       THEN HostPosts("RECORDING_STOPPED")
       ELSE UNCHANGED hostMessages

\* onMessage START_RECORDING, up to the first await of handleStartRecording
OnStartRecording ==
  /\ Cardinality(StartRequests) < MaxStartRequests
  /\ LET id == Len(executions) + 1
         request == [NoExecution EXCEPT !.pendingStart = OriginalStart]
     IN  IF currentRecordingTask /= Null
           THEN \* the request waits for the tracked task
                /\ executions' = Append(executions,
                     [request EXCEPT !.pc = "joined",
                                     !.joinedTo = currentRecordingTask])
                /\ UNCHANGED currentRecordingTask
           ELSE IF StartGuardPasses
             THEN \* suspended in `await chrome.storage.local.set({recordingLock: true})`
                  /\ executions' = Append(executions,
                       [request EXCEPT !.pc = "lock_store", !.ran = TRUE])
                  /\ currentRecordingTask' = id
             ELSE \* handleStartRecording throws; the .catch answers
                  /\ executions' = Append(executions,
                       [request EXCEPT !.ran = TRUE, !.result = "err",
                                       !.response = "error"])
                  /\ currentRecordingTask' = Null
  /\ UNCHANGED <<recordingLock, isRecording, storedIsRecording, offscreenCreated,
                 isOffscreenInitialized, documentOpen, documentsCreated,
                 hostRecording, hostMessages>>
  /\ RecordingStep

\* a start that never stops the recording that is running
MustStopFirst_Never == FALSE

\* `if (isRecording)` of handleStartRecording: stop first
MustStopFirst == isRecording

\* handleStartRecording resumes: recordingLock = true, then the stop of a
\* recording that is running, or closeOffscreenDocument
StartSetLock(e) ==
  /\ e \in StartRequests
  /\ executions[e].pc = "lock_store"
  /\ recordingLock' = TRUE
  /\ IF MustStopFirst
       THEN executions' = Append(
              [executions EXCEPT ![e].pc = "stop_first"],
              [NoExecution EXCEPT !.kind = "stop", !.pc = "stop_check", !.caller = e])
       ELSE executions' = [executions EXCEPT ![e].pc = "close_check",
                                             ![e].after = "session"]
  /\ UNCHANGED <<currentRecordingTask, isRecording, storedIsRecording,
                 offscreenCreated, isOffscreenInitialized, documentOpen,
                 documentsCreated, hostRecording, hostMessages>>
  /\ RecordingStep

\* closeOffscreenDocument after `await hasOffscreenDocument()`
CloseOffscreenCheck(e) ==
  /\ e \in Executions
  /\ executions[e].pc = "close_check"
  /\ IF documentOpen
       THEN /\ executions' = [executions EXCEPT ![e].pc = "close_do"]
            /\ UNCHANGED <<offscreenCreated, isOffscreenInitialized>>
       ELSE /\ executions' = [executions EXCEPT ![e].pc = executions[e].after,
                                                ![e].after = "none"]
            /\ offscreenCreated' = FALSE
            /\ isOffscreenInitialized' = FALSE
  /\ UNCHANGED <<currentRecordingTask, recordingLock, isRecording,
                 storedIsRecording, documentOpen, documentsCreated,
                 hostRecording, hostMessages>>
  /\ RecordingStep

\* closeOffscreenDocument: STOP_RECORDING to the document, closeDocument()
\* and the reset of the flags (the catch resets them as well); the function
\* then waits a second before it returns
CloseOffscreenDo(e) ==
  /\ e \in Executions
  /\ executions[e].pc = "close_do"
  /\ HostStops
  /\ documentOpen' = FALSE
  /\ offscreenCreated' = FALSE
  /\ isOffscreenInitialized' = FALSE
  /\ executions' = [executions EXCEPT ![e].pc = "close_wait"]
  /\ UNCHANGED <<currentRecordingTask, recordingLock, isRecording,
                 storedIsRecording, documentsCreated>>
  /\ RecordingStep

\* closeOffscreenDocument returns after its last wait
CloseOffscreenReturns(e) ==
  /\ e \in Executions
  /\ executions[e].pc = "close_wait"
  /\ executions' = [executions EXCEPT ![e].pc = executions[e].after,
                                      ![e].after = "none"]
  /\ UNCHANGED <<currentRecordingTask, recordingLock, isRecording,
                 storedIsRecording, offscreenCreated, isOffscreenInitialized,
                 documentOpen, documentsCreated, hostRecording, hostMessages>>
  /\ RecordingStep

\* handleStartRecording after the document was closed: the session id, the
\* tab, and the first attempt of ensureOffscreenDocument
StartSession(e, tabFound) ==
  /\ e \in StartRequests
  /\ executions[e].pc = "session"
  /\ IF tabFound
       THEN executions' = [executions EXCEPT ![e].pc = "close_check",
                                             ![e].after = "create",
                                             ![e].attempt = 1]
       ELSE executions' = [executions EXCEPT ![e].pc = "failing"]
  /\ UNCHANGED <<currentRecordingTask, recordingLock, isRecording,
                 storedIsRecording, offscreenCreated, isOffscreenInitialized,
                 documentOpen, documentsCreated, hostRecording, hostMessages>>
  /\ RecordingStep

\* the end of an attempt of ensureOffscreenDocument that gave no document:
\* the next attempt, or `return false` and the caller's throw
NextAttempt(x) ==
  IF x.attempt < EnsureAttempts
    THEN [x EXCEPT !.pc = "close_check", !.after = "create", !.attempt = x.attempt + 1]
    ELSE [x EXCEPT !.pc = "failing", !.attempt = 0, !.ensureFailed = TRUE]

\* ensureOffscreenDocument: chrome.offscreen.createDocument
EnsureCreate(e) ==
  /\ e \in StartRequests
  /\ executions[e].pc = "create"
  /\ IF documentOpen
       THEN \* "Only a single offscreen document": closeDocument() and retry
            /\ HostStops
            /\ documentOpen' = FALSE
            /\ executions' = [executions EXCEPT ![e] = NextAttempt(executions[e])]
            /\ UNCHANGED <<offscreenCreated, documentsCreated>>
       ELSE /\ documentOpen' = TRUE
            /\ documentsCreated' = documentsCreated + 1
            /\ offscreenCreated' = TRUE
            /\ hostRecording' = FALSE
            /\ HostPosts("OFFSCREEN_DOCUMENT_READY")
            /\ executions' = [executions EXCEPT ![e].pc = "ready",
                                                ![e].created = executions[e].created + 1]
  /\ UNCHANGED <<currentRecordingTask, recordingLock, isRecording,
                 storedIsRecording, isOffscreenInitialized>>
  /\ RecordingStep

\* ensureOffscreenDocument: the race of the ready message and the ping
EnsureReady(e, documentReady) ==
  /\ e \in StartRequests
  /\ executions[e].pc = "ready"
  /\ documentReady => documentOpen
  /\ IF documentReady
       THEN /\ isOffscreenInitialized' = TRUE
            /\ executions' = [executions EXCEPT ![e].pc = "stream", ![e].attempt = 0]
       ELSE /\ executions' = [executions EXCEPT ![e] = NextAttempt(executions[e])]
            /\ UNCHANGED isOffscreenInitialized
  /\ UNCHANGED <<currentRecordingTask, recordingLock, isRecording,
                 storedIsRecording, offscreenCreated, documentOpen,
                 documentsCreated, hostRecording, hostMessages>>
  /\ RecordingStep

\* handleStartRecording: getMediaStreamId answered, the check of the flags,
\* and START_RECORDING sent to the document
StartStream(e, streamFound) ==
  /\ e \in StartRequests
  /\ executions[e].pc = "stream"
  /\ IF streamFound /\ offscreenCreated /\ isOffscreenInitialized
       THEN executions' = [executions EXCEPT ![e].pc = "starting"]
       ELSE executions' = [executions EXCEPT ![e].pc = "failing"]
  /\ UNCHANGED <<currentRecordingTask, recordingLock, isRecording,
                 storedIsRecording, offscreenCreated, isOffscreenInitialized,
                 documentOpen, documentsCreated, hostRecording, hostMessages>>
  /\ RecordingStep

\* handleStartRecording: the document's answer to START_RECORDING
StartResponse(e, success) ==
  /\ e \in StartRequests
  /\ executions[e].pc = "starting"
  /\ success => documentOpen
  /\ IF success
       THEN /\ isRecording' = TRUE
            /\ storedIsRecording' = TRUE
            /\ hostRecording' = TRUE
            /\ HostPosts("RECORDING_STARTED")
            /\ executions' = [executions EXCEPT ![e].pc = "finally",
                                                ![e].result = "ok"]
       ELSE /\ executions' = [executions EXCEPT ![e].pc = "failing"]
            /\ UNCHANGED <<isRecording, storedIsRecording, hostRecording, hostMessages>>
  /\ UNCHANGED <<currentRecordingTask, recordingLock, offscreenCreated,
                 isOffscreenInitialized, documentOpen, documentsCreated>>
  /\ RecordingStep

\* handleStartRecording: the outer catch
StartFails(e) ==
  /\ e \in StartRequests
  /\ executions[e].pc = "failing"
  /\ isRecording' = FALSE
  /\ storedIsRecording' = FALSE
  /\ executions' = [executions EXCEPT ![e].pc = "close_check",
                                      ![e].after = "finally",
                                      ![e].result = "err"]
  /\ UNCHANGED <<currentRecordingTask, recordingLock, offscreenCreated,
                 isOffscreenInitialized, documentOpen, documentsCreated,
                 hostRecording, hostMessages>>
  /\ RecordingStep

\* handleStartRecording: the finally block
StartFinally(e) ==
  /\ e \in StartRequests
  /\ executions[e].pc = "finally"
  /\ recordingLock' = FALSE
  /\ executions' = [executions EXCEPT ![e].pc = "settling"]
  /\ UNCHANGED <<currentRecordingTask, isRecording, storedIsRecording,
                 offscreenCreated, isOffscreenInitialized, documentOpen,
                 documentsCreated, hostRecording, hostMessages>>
  /\ RecordingStep

\* the answer a settled handleStartRecording gives
ResponseOf(result) == IF result = "ok" THEN "started" ELSE "error"

\* a settled start that leaves the tracked task in place
SettledTask_Kept == currentRecordingTask

\* `currentRecordingTask = null` in the .then and the .catch of the listener
SettledTask == Null

\* the promise of handleStartRecording settles: the .then / .catch of the
\* listener, then those of the requests that waited for the task
StartSettles(e) ==
  /\ e \in StartRequests
  /\ executions[e].pc = "settling"
  /\ currentRecordingTask' = SettledTask
  /\ executions' =
       [f \in Executions |->
          IF f = e \/ (executions[f].pc = "joined" /\ executions[f].joinedTo = e)
            THEN [executions[f] EXCEPT !.pc = "done",
                                       !.result = executions[e].result,
                                       !.response = ResponseOf(executions[e].result)]
            ELSE executions[f]]
  /\ UNCHANGED <<recordingLock, isRecording, storedIsRecording, offscreenCreated,
                 isOffscreenInitialized, documentOpen, documentsCreated,
                 hostRecording, hostMessages>>
  /\ RecordingStep

\* onMessage STOP_RECORDING, up to the first await of handleStopRecording
OnStopRecording ==
  /\ Cardinality(StopRequests) < MaxStopRequests
  /\ currentRecordingTask' = Null
  /\ executions' = Append(executions,
       [NoExecution EXCEPT !.kind = "stop", !.pc = "stop_check",
                           !.pendingStart = OriginalStart,
                           !.idle = NothingRecording])
  /\ UNCHANGED <<recordingLock, isRecording, storedIsRecording, offscreenCreated,
                 isOffscreenInitialized, documentOpen, documentsCreated,
                 hostRecording, hostMessages>>
  /\ RecordingStep

\* handleStopRecording after `await hasOffscreenDocument()`
StopCheck(s) ==
  /\ s \in Executions
  /\ executions[s].pc = "stop_check"
  /\ IF ~documentOpen
       THEN /\ isRecording' = FALSE
            /\ storedIsRecording' = FALSE
            /\ executions' = [executions EXCEPT ![s].pc = "return"]
       ELSE IF isOffscreenInitialized
         THEN /\ executions' = [executions EXCEPT ![s].pc = "stop_sent"]
              /\ UNCHANGED <<isRecording, storedIsRecording>>
         ELSE /\ isRecording' = FALSE
              /\ storedIsRecording' = FALSE
              /\ executions' = [executions EXCEPT ![s].pc = "close_check",
                                                  ![s].after = "return"]
  /\ UNCHANGED <<currentRecordingTask, recordingLock, offscreenCreated,
                 isOffscreenInitialized, documentOpen, documentsCreated,
                 hostRecording, hostMessages>>
  /\ RecordingStep

\* handleStopRecording: the document answered STOP_RECORDING (or the send
\* failed); the recording state is reset and the document is closed
StopReset(s) ==
  /\ s \in Executions
  /\ executions[s].pc = "stop_sent"
  /\ HostStops
  /\ isRecording' = FALSE
  /\ storedIsRecording' = FALSE
  /\ executions' = [executions EXCEPT ![s].pc = "close_check",
                                      ![s].after = "return"]
  /\ UNCHANGED <<currentRecordingTask, recordingLock, offscreenCreated,
                 isOffscreenInitialized, documentOpen, documentsCreated>>
  /\ RecordingStep

\* handleStopRecording returns: the listener answers, or the
\* handleStartRecording that called it goes on to closeOffscreenDocument
StopReturns(s) ==
  /\ s \in Executions
  /\ executions[s].pc = "return"
  /\ LET c == executions[s].caller
     IN  IF c = Null
           THEN executions' = [executions EXCEPT ![s].pc = "done",
                                                 ![s].result = "ok",
                                                 ![s].response = "stopped"]
           ELSE executions' = [executions EXCEPT ![s].pc = "done",
                                                 ![s].result = "ok",
                                                 ![c].pc = "close_check",
                                                 ![c].after = "session"]
  /\ UNCHANGED <<currentRecordingTask, recordingLock, isRecording,
                 storedIsRecording, offscreenCreated, isOffscreenInitialized,
                 documentOpen, documentsCreated, hostRecording, hostMessages>>
  /\ RecordingStep

\* onMessage OFFSCREEN_DOCUMENT_READY
OnDocumentReady ==
  /\ "OFFSCREEN_DOCUMENT_READY" \in hostMessages
  /\ hostMessages' = hostMessages \ {"OFFSCREEN_DOCUMENT_READY"}
  /\ isOffscreenInitialized' = TRUE
  /\ offscreenCreated' = TRUE
  /\ UNCHANGED <<executions, currentRecordingTask, recordingLock, isRecording,
                 storedIsRecording, documentOpen, documentsCreated, hostRecording>>
  /\ RecordingStep

\* onMessage RECORDING_STARTED
OnRecordingStarted ==
  /\ "RECORDING_STARTED" \in hostMessages
  /\ hostMessages' = hostMessages \ {"RECORDING_STARTED"}
  /\ isRecording' = TRUE
  /\ storedIsRecording' = TRUE
  /\ UNCHANGED <<executions, currentRecordingTask, recordingLock,
                 offscreenCreated, isOffscreenInitialized, documentOpen,
                 documentsCreated, hostRecording>>
  /\ RecordingStep

\* onMessage RECORDING_STOPPED
OnRecordingStopped ==
  /\ "RECORDING_STOPPED" \in hostMessages
  /\ hostMessages' = hostMessages \ {"RECORDING_STOPPED"}
  /\ isRecording' = FALSE
  /\ storedIsRecording' = FALSE
  /\ UNCHANGED <<executions, currentRecordingTask, recordingLock,
                 offscreenCreated, isOffscreenInitialized, documentOpen,
                 documentsCreated, hostRecording>>
  /\ RecordingStep

\* the document's timer of MAX_RECORDING_DURATION fires while it records:
\* stopRecording() in the document, which tells the background
HostMaxDuration ==
  /\ documentOpen
  /\ hostRecording
  /\ HostStops
  /\ UNCHANGED <<executions, currentRecordingTask, recordingLock, isRecording,
                 storedIsRecording, offscreenCreated, isOffscreenInitialized,
                 documentOpen, documentsCreated>>
  /\ RecordingStep

InitRecording ==
  /\ executions = <<>>
  /\ currentRecordingTask = Null
  /\ recordingLock = FALSE
  /\ isRecording = FALSE
  /\ storedIsRecording = FALSE
  /\ offscreenCreated = FALSE
  /\ isOffscreenInitialized = FALSE
  /\ documentOpen = FALSE
  /\ documentsCreated = 0
  /\ hostRecording = FALSE
  /\ hostMessages = {}

ExecutionIds == 1..(2 * MaxStartRequests + MaxStopRequests + MaxHostErrors)

NextRecording ==
  \/ OnStartRecording
  \/ OnStopRecording
  \/ \E e \in ExecutionIds : StartSetLock(e)
  \/ \E e \in ExecutionIds : CloseOffscreenCheck(e)
  \/ \E e \in ExecutionIds : CloseOffscreenDo(e)
  \/ \E e \in ExecutionIds : CloseOffscreenReturns(e)
  \/ \E e \in ExecutionIds, tabFound \in BOOLEAN : StartSession(e, tabFound)
  \/ \E e \in ExecutionIds : EnsureCreate(e)
  \/ \E e \in ExecutionIds, documentReady \in BOOLEAN : EnsureReady(e, documentReady)
  \/ \E e \in ExecutionIds, streamFound \in BOOLEAN : StartStream(e, streamFound)
  \/ \E e \in ExecutionIds, success \in BOOLEAN : StartResponse(e, success)
  \/ \E e \in ExecutionIds : StartFails(e)
  \/ \E e \in ExecutionIds : StartFinally(e)
  \/ \E e \in ExecutionIds : StartSettles(e)
  \/ \E s \in ExecutionIds : StopCheck(s)
  \/ \E s \in ExecutionIds : StopReset(s)
  \/ \E s \in ExecutionIds : StopReturns(s)
  \/ OnDocumentReady
  \/ OnRecordingStarted
  \/ OnRecordingStopped
  \/ HostMaxDuration

\* ------------------------------------------------------------------------
\* RECORDING_ERROR
\* ------------------------------------------------------------------------

\* the executions of the RECORDING_ERROR handler's closeOffscreenDocument
ErrorCleanups == {e \in Executions : executions[e].kind = "error"}

\* mediaRecorder.onerror in the document: RECORDING_ERROR is sent.  The
\* document's messages arrive in the order it sent them, so its
\* RECORDING_STARTED was delivered before.
HostRecorderError ==
  /\ documentOpen
  /\ hostRecording
  /\ "RECORDING_STARTED" \notin hostMessages
  /\ "RECORDING_ERROR" \notin hostMessages
  /\ Cardinality(ErrorCleanups) < MaxHostErrors
  /\ hostRecording' = FALSE
  /\ HostPosts("RECORDING_ERROR")
  /\ UNCHANGED <<executions, currentRecordingTask, recordingLock, isRecording,
                 storedIsRecording, offscreenCreated, isOffscreenInitialized,
                 documentOpen, documentsCreated>>
  /\ RecordingStep

\* onMessage RECORDING_ERROR: isRecording = false here and in storage,
\* closeOffscreenDocument() is called and not awaited, and
\* RECORDING_STATE_CHANGED is sent
OnRecordingError ==
  /\ "RECORDING_ERROR" \in hostMessages
  /\ hostMessages' = hostMessages \ {"RECORDING_ERROR"}
  /\ isRecording' = FALSE
  /\ storedIsRecording' = FALSE
  /\ executions' = Append(executions,
       [NoExecution EXCEPT !.kind = "error", !.pc = "close_check",
                           !.after = "done",
                           !.response = "RECORDING_STATE_CHANGED"])
  /\ UNCHANGED <<currentRecordingTask, recordingLock, offscreenCreated,
                 isOffscreenInitialized, documentOpen, documentsCreated,
                 hostRecording>>
  /\ RecordingStep

\* START_RECORDING messages from the popup and the handlers they start,
\* with a document whose recorder may fail
NextHostError ==
  \/ OnStartRecording
  \/ \E e \in ExecutionIds : StartSetLock(e)
  \/ \E e \in ExecutionIds : CloseOffscreenCheck(e)
  \/ \E e \in ExecutionIds : CloseOffscreenDo(e)
  \/ \E e \in ExecutionIds : CloseOffscreenReturns(e)
  \/ \E e \in ExecutionIds, tabFound \in BOOLEAN : StartSession(e, tabFound)
  \/ \E e \in ExecutionIds : EnsureCreate(e)
  \/ \E e \in ExecutionIds, documentReady \in BOOLEAN : EnsureReady(e, documentReady)
  \/ \E e \in ExecutionIds, streamFound \in BOOLEAN : StartStream(e, streamFound)
  \/ \E e \in ExecutionIds, success \in BOOLEAN : StartResponse(e, success)
  \/ \E e \in ExecutionIds : StartFails(e)
  \/ \E e \in ExecutionIds : StartFinally(e)
  \/ \E e \in ExecutionIds : StartSettles(e)
  \/ \E s \in ExecutionIds : StopCheck(s)
  \/ \E s \in ExecutionIds : StopReset(s)
  \/ \E s \in ExecutionIds : StopReturns(s)
  \/ OnDocumentReady
  \/ OnRecordingStarted
  \/ OnRecordingStopped
  \/ HostRecorderError
  \/ OnRecordingError

\* ========================================================================
\* The offscreen document's recorder and its safety timeout
\* ========================================================================

\* a startRecording that sets no safety timeout
TimersAfterStart_None(timers) == timers

\* setTimeout(..., CONFIG.AUDIO.MAX_RECORDING_DURATION) at the end of
\* startRecording; nothing clears a safety timeout
TimersAfterStart(timers) == timers \cup {MAX_RECORDING_DURATION}

\* startRecording, from the callback that calls mediaRecorder.start() to
\* its return: the continuation after the await runs in the same task
HostStartRecording ==
  /\ mediaRecorderState = "inactive"
  /\ recordingsStarted < MaxRecordings
  /\ mediaRecorderState' = "recording"
  /\ recordingAge' = 0
  /\ safetyTimers' = TimersAfterStart(safetyTimers)
  /\ recordingsStarted' = recordingsStarted + 1
  /\ UNCHANGED forcedStops
  /\ RecorderStep

\* stopRecording called for STOP_RECORDING, or for a START_RECORDING that
\* finds the recorder running: mediaRecorder.stop()
HostStopRecording ==
  /\ mediaRecorderState = "recording"
  /\ mediaRecorderState' = "inactive"
  /\ recordingAge' = 0
  /\ UNCHANGED <<safetyTimers, recordingsStarted, forcedStops>>
  /\ RecorderStep

\* a safety timeout fires: `if (isRecording()) stopRecording()`
HostSafetyTimeout ==
  /\ 0 \in safetyTimers
  /\ safetyTimers' = safetyTimers \ {0}
  /\ IF mediaRecorderState = "recording"
       THEN /\ mediaRecorderState' = "inactive"
            /\ recordingAge' = 0
            /\ forcedStops' = forcedStops + 1
       ELSE UNCHANGED <<mediaRecorderState, recordingAge, forcedStops>>
  /\ UNCHANGED recordingsStarted
  /\ RecorderStep

\* the document is closed and a new one is created: the recorder and the
\* timers of the old one are gone
HostDocumentReplaced ==
  /\ recordingsStarted > 0
  /\ mediaRecorderState' = "inactive"
  /\ recordingAge' = 0
  /\ safetyTimers' = {}
  /\ UNCHANGED <<recordingsStarted, forcedStops>>
  /\ RecorderStep

\* two minutes pass; a timeout that is due fires before more time passes
HostTick ==
  /\ 0 \notin safetyTimers
  /\ safetyTimers /= {} \/ mediaRecorderState = "recording"
  /\ recordingAge <= MAX_RECORDING_DURATION
  /\ safetyTimers' = {t - 1 : t \in safetyTimers}
  /\ recordingAge' = IF mediaRecorderState = "recording" THEN recordingAge + 1 ELSE 0
  /\ UNCHANGED <<mediaRecorderState, recordingsStarted, forcedStops>>
  /\ RecorderStep

InitRecorder ==
  /\ mediaRecorderState = "inactive"
  /\ recordingAge = 0
  /\ safetyTimers = {}
  /\ recordingsStarted = 0
  /\ forcedStops = 0

NextRecorder ==
  \/ HostStartRecording
  \/ HostStopRecording
  \/ HostSafetyTimeout
  \/ HostDocumentReplaced
  \/ HostTick

\* ========================================================================
\* ensureOffscreenDocument: the race of the ready message and the ping
\* ========================================================================

\* a promise settles once: a later resolve has no effect
Resolve(promise, value) == IF promise = "pending" THEN value ELSE promise

\* Promise.race settles with the promise that settles first
RaceSettles(value) == raceResult' = Resolve(raceResult, value)

\* messageListener receives OFFSCREEN_DOCUMENT_READY: resolve(true).  The
\* listener is removed when readyPromise settles.
RaceReadyArrives ==
  /\ readyPromise = "pending"
  /\ readyPromise' = "true"
  /\ RaceSettles("true")
  /\ UNCHANGED <<raceAttempt, raceClock, pingPromise>>
  /\ RaceStep

\* readyPromise's setTimeout of 5000 ms: resolve(false)
RaceReadyTimeout ==
  /\ readyPromise = "pending"
  /\ raceClock = READY_TIMEOUT
  /\ readyPromise' = "false"
  /\ RaceSettles("false")
  /\ UNCHANGED <<raceAttempt, raceClock, pingPromise>>
  /\ RaceStep

\* the callback of the PING_OFFSCREEN message: resolve(true) for a pong,
\* resolve(false) for no response
RacePingAnswered(pong) ==
  /\ pingPromise = "pending"
  /\ pingPromise' = IF pong THEN "true" ELSE "false"
  /\ RaceSettles(pingPromise')
  /\ UNCHANGED <<raceAttempt, raceClock, readyPromise>>
  /\ RaceStep

\* pingPromise's setTimeout of 3000 ms: resolve(false)
RacePingTimeout ==
  /\ pingPromise = "pending"
  /\ raceClock = PING_TIMEOUT
  /\ pingPromise' = "false"
  /\ RaceSettles("false")
  /\ UNCHANGED <<raceAttempt, raceClock, readyPromise>>
  /\ RaceStep

\* a second passes; a timeout that is due fires before more time passes
RaceTick ==
  /\ raceClock < READY_TIMEOUT
  /\ readyPromise = "pending" \/ pingPromise = "pending"
  /\ ~(pingPromise = "pending" /\ raceClock = PING_TIMEOUT)
  /\ raceClock' = raceClock + 1
  /\ UNCHANGED <<raceAttempt, readyPromise, pingPromise, raceResult>>
  /\ RaceStep

\* documentReady was false: the next attempt of the loop makes its own two
\* promises, more than READY_TIMEOUT after those of this attempt
RaceNextAttempt ==
  /\ raceResult = "false"
  /\ readyPromise /= "pending"
  /\ pingPromise /= "pending"
  /\ raceAttempt < EnsureAttempts
  /\ raceAttempt' = raceAttempt + 1
  /\ raceClock' = 0
  /\ readyPromise' = "pending"
  /\ pingPromise' = "pending"
  /\ raceResult' = "pending"
  /\ RaceStep

InitRace ==
  /\ raceAttempt = 1
  /\ raceClock = 0
  /\ readyPromise = "pending"
  /\ pingPromise = "pending"
  /\ raceResult = "pending"

NextRace ==
  \/ RaceReadyArrives
  \/ RaceReadyTimeout
  \/ \E pong \in BOOLEAN : RacePingAnswered(pong)
  \/ RacePingTimeout
  \/ RaceTick
  \/ RaceNextAttempt

\* ========================================================================
\* PREPARE_LARGE_UPLOAD and STORE_AUDIO_CHUNK
\* ========================================================================

StagedIndexes == 0..(MaxStagedChunks - 1)

\* no largeUpload key in storage
NothingStaged == [staged |-> FALSE, chunks |-> {}, receivedChunks |-> 0, totalChunks |-> 0]

\* chunks[request.chunkIndex] = request.chunk and updatedUpload, made from
\* the record that chrome.storage.local.get gave
UpdatedUpload(read, chunkIndex, totalChunks) ==
  [read EXCEPT !.chunks = @ \cup {chunkIndex},
               !.receivedChunks = @ + 1,
               !.totalChunks = totalChunks]

\* onMessage PREPARE_LARGE_UPLOAD: the record is set anew
OnPrepareLargeUpload ==
  /\ prepares < MaxPrepares
  /\ prepares' = prepares + 1
  /\ largeUpload' = [staged |-> TRUE, chunks |-> {}, receivedChunks |-> 0,
                     totalChunks |-> 0]
  /\ UNCHANGED storeHandlers
  /\ StagingStep

\* onMessage STORE_AUDIO_CHUNK: chrome.storage.local.get is called
OnStoreAudioChunk(i) ==
  /\ storeHandlers[i].pc = "none"
  /\ storeHandlers' = [storeHandlers EXCEPT ![i].pc = "get",
                                            ![i].prepared = prepares]
  /\ UNCHANGED <<largeUpload, prepares>>
  /\ StagingStep

\* the get resolves with what storage holds: without a record the handler
\* returns, with one it makes updatedUpload and calls chrome.storage.local.set
StoreChunkGet(i) ==
  /\ storeHandlers[i].pc = "get"
  /\ IF ~largeUpload.staged
       THEN storeHandlers' = [storeHandlers EXCEPT ![i].pc = "done"]
       ELSE storeHandlers' =
              [storeHandlers EXCEPT
                 ![i].pc = "set",
                 ![i].updatedUpload = UpdatedUpload(largeUpload, i, MaxStagedChunks)]
  /\ UNCHANGED <<largeUpload, prepares>>
  /\ StagingStep

\* storage takes the handler's write
StoreChunkSet(i) ==
  /\ storeHandlers[i].pc = "set"
  /\ largeUpload' = storeHandlers[i].updatedUpload
  /\ storeHandlers' = [storeHandlers EXCEPT ![i].pc = "done"]
  /\ UNCHANGED prepares
  /\ StagingStep

InitStaging ==
  /\ largeUpload = NothingStaged
  /\ storeHandlers = [i \in StagedIndexes |->
                        [pc |-> "none", prepared |-> 0,
                         updatedUpload |-> NothingStaged]]
  /\ prepares = 0

NextStaging ==
  \/ OnPrepareLargeUpload
  \/ \E i \in StagedIndexes : OnStoreAudioChunk(i)
  \/ \E i \in StagedIndexes : StoreChunkGet(i)
  \/ \E i \in StagedIndexes : StoreChunkSet(i)

\* ========================================================================
\* The session id: handleStartRecording, handleStopRecording and
\* prepareR2UploadMetadata
\* ========================================================================

NoHost == [exists |-> FALSE, recording |-> FALSE, session |-> Null]

NoStart == [pc |-> "idle"]

NoStop == [pc |-> "idle", caller |-> "none", stopping |-> Null,
           currentSessionId |-> Null, currentTab |-> Null, handled |-> 0]

\* the document's recorder stops with audio: the recording goes over the
\* port and processPortUpload starts uploadFromPortSession, which waits in
\* prepareR2UploadMetadata for storage
RecordingHandedOver(host) ==
  IF host.exists /\ host.recording
    THEN Append(sessionUploads, [producer |-> host.session, key |-> Null])
    ELSE sessionUploads

\* `currentSessionId || sessionId || lastSessionId || 'unknown'`
EffectiveSessionId(stored, inMemory) ==
  IF stored.currentSessionId /= Null THEN stored.currentSessionId
  ELSE IF inMemory /= Null THEN inMemory
  ELSE stored.lastSessionId

\* onMessage START_RECORDING with recordingLock free: handleStartRecording
\* to its first awaits.  While isRecording it calls handleStopRecording.
SessStartRecording ==
  /\ sessionStart.pc = "idle"
  /\ idsGenerated < MaxSessionIds
  /\ IF sessionRecording
       THEN /\ sessionStop.pc \in {"idle", "returned"}
            /\ sessionStart' = [pc |-> "stop_first"]
            /\ sessionStop' = [NoStop EXCEPT !.pc = "check", !.caller = "start",
                                             !.stopping = sessionId,
                                             !.handled = sessionStop.handled]
       ELSE /\ sessionStart' = [pc |-> "close"]
            /\ UNCHANGED sessionStop
  /\ UNCHANGED <<sessionId, currentTabInfo, storedIds, sessionRecording,
                 sessionHost, sessionUploads, idsGenerated>>
  /\ SessionStep

\* closeOffscreenDocument of handleStartRecording: STOP_RECORDING to the
\* document, then closeDocument()
SessStartCloses ==
  /\ sessionStart.pc = "close"
  /\ sessionUploads' = RecordingHandedOver(sessionHost)
  /\ sessionHost' = NoHost
  /\ sessionStart' = [pc |-> "session"]
  /\ UNCHANGED <<sessionId, currentTabInfo, storedIds, sessionRecording,
                 sessionStop, idsGenerated>>
  /\ SessionStep

\* sessionId = generateSessionId() and the storage write of
\* currentSessionId and lastSessionId
SessStartGenerates ==
  /\ sessionStart.pc = "session"
  /\ idsGenerated' = idsGenerated + 1
  /\ sessionId' = idsGenerated + 1
  /\ storedIds' = [currentSessionId |-> idsGenerated + 1,
                   lastSessionId |-> idsGenerated + 1]
  /\ sessionStart' = [pc |-> "tab"]
  /\ UNCHANGED <<currentTabInfo, sessionRecording, sessionHost, sessionStop,
                 sessionUploads>>
  /\ SessionStep

\* getCurrentTab() answers: currentTabInfo is set, or the start throws and
\* its catch and finally run
SessStartTab(tabFound) ==
  /\ sessionStart.pc = "tab"
  /\ IF tabFound
       THEN /\ currentTabInfo' = sessionId
            /\ sessionStart' = [pc |-> "host"]
            /\ UNCHANGED sessionRecording
       ELSE /\ sessionRecording' = FALSE
            /\ sessionStart' = NoStart
            /\ UNCHANGED currentTabInfo
  /\ UNCHANGED <<sessionId, storedIds, sessionHost, sessionStop, sessionUploads,
                 idsGenerated>>
  /\ SessionStep

\* ensureOffscreenDocument and START_RECORDING to the new document: the
\* document records for the session id that is in memory now
SessStartHost(success) ==
  /\ sessionStart.pc = "host"
  /\ IF success
       THEN /\ sessionHost' = [exists |-> TRUE, recording |-> TRUE,
                               session |-> sessionId]
            /\ sessionRecording' = TRUE
       ELSE /\ sessionHost' = NoHost
            /\ sessionRecording' = FALSE
  /\ sessionUploads' = RecordingHandedOver(sessionHost)
  /\ sessionStart' = NoStart
  /\ UNCHANGED <<sessionId, currentTabInfo, storedIds, sessionStop, idsGenerated>>
  /\ SessionStep

\* onMessage STOP_RECORDING: handleStopRecording to its first awaits
SessStopRecording ==
  /\ sessionStop.pc \in {"idle", "returned"}
  /\ sessionStop.handled < MaxSessionStops
  /\ sessionStop' = [NoStop EXCEPT !.pc = "check", !.stopping = sessionId,
                                   !.handled = sessionStop.handled + 1]
  /\ UNCHANGED <<sessionId, currentTabInfo, storedIds, sessionRecording,
                 sessionHost, sessionStart, sessionUploads, idsGenerated>>
  /\ SessionStep

\* the end of a handleStopRecording: the listener answers, or the start
\* that called it goes on
StopReturned(stop) == [stop EXCEPT !.pc = "returned"]

\* handleStopRecording after `await hasOffscreenDocument()`: without a
\* document isRecording = false and `return { success: true }`; with one,
\* STOP_RECORDING is sent and isRecording = false
SessStopCheck ==
  /\ sessionStop.pc = "check"
  /\ sessionRecording' = FALSE
  /\ IF ~sessionHost.exists
       THEN /\ sessionStop' = StopReturned(sessionStop)
            /\ sessionStart' = IF sessionStop.caller = "start"
                                 THEN [pc |-> "close"] ELSE sessionStart
            /\ UNCHANGED <<sessionHost, sessionUploads>>
       ELSE /\ sessionStop' = [sessionStop EXCEPT !.pc = "capture"]
            /\ sessionUploads' = RecordingHandedOver(sessionHost)
            /\ sessionHost' = [sessionHost EXCEPT !.recording = FALSE]
            /\ UNCHANGED sessionStart
  /\ UNCHANGED <<sessionId, currentTabInfo, storedIds, idsGenerated>>
  /\ SessionStep

\* `const currentSessionId = sessionId; const currentTab = currentTabInfo`,
\* then the reads of userInfo
SessStopCaptures ==
  /\ sessionStop.pc = "capture"
  /\ sessionStop' = [sessionStop EXCEPT !.pc = "store",
                                        !.currentSessionId = sessionId,
                                        !.currentTab = currentTabInfo]
  /\ UNCHANGED <<sessionId, currentTabInfo, storedIds, sessionRecording,
                 sessionHost, sessionStart, sessionUploads, idsGenerated>>
  /\ SessionStep

\* the storage write of lastSessionId, startSummaryPolling, then
\* `sessionId = null; currentTabInfo = null` and the wait of five seconds
SessStopStores ==
  /\ sessionStop.pc = "store"
  /\ storedIds' = [storedIds EXCEPT !.lastSessionId = sessionStop.currentSessionId]
  /\ sessionId' = Null
  /\ currentTabInfo' = Null
  /\ sessionStop' = [sessionStop EXCEPT !.pc = "closing"]
  /\ UNCHANGED <<sessionRecording, sessionHost, sessionStart, sessionUploads,
                 idsGenerated>>
  /\ SessionStep

\* closeOffscreenDocument at the end of handleStopRecording and
\* `return { success: true }`
SessStopCloses ==
  /\ sessionStop.pc = "closing"
  /\ sessionUploads' = RecordingHandedOver(sessionHost)
  /\ sessionHost' = NoHost
  /\ sessionStop' = StopReturned(sessionStop)
  /\ sessionStart' = IF sessionStop.caller = "start"
                       THEN [pc |-> "close"] ELSE sessionStart
  /\ UNCHANGED <<sessionId, currentTabInfo, storedIds, sessionRecording,
                 idsGenerated>>
  /\ SessionStep

\* onMessage RECORDING_ERROR: isRecording = false and the document is
\* closed
SessRecordingError ==
  /\ sessionHost.exists
  /\ sessionHost.recording
  /\ sessionRecording' = FALSE
  /\ sessionHost' = NoHost
  /\ UNCHANGED <<sessionId, currentTabInfo, storedIds, sessionStart,
                 sessionStop, sessionUploads, idsGenerated>>
  /\ SessionStep

\* prepareR2UploadMetadata resumes with what storage holds and makes the
\* key and the session-id metadata
SessUploadKey(u) ==
  /\ u \in 1..Len(sessionUploads)
  /\ sessionUploads[u].key = Null
  /\ sessionUploads' = [sessionUploads EXCEPT
                          ![u].key = EffectiveSessionId(storedIds, sessionId)]
  /\ UNCHANGED <<sessionId, currentTabInfo, storedIds, sessionRecording,
                 sessionHost, sessionStart, sessionStop, idsGenerated>>
  /\ SessionStep

InitSession ==
  /\ sessionId = Null
  /\ currentTabInfo = Null
  /\ storedIds = [currentSessionId |-> Null, lastSessionId |-> Null]
  /\ sessionRecording = FALSE
  /\ sessionHost = NoHost
  /\ sessionStart = NoStart
  /\ sessionStop = NoStop
  /\ sessionUploads = <<>>
  /\ idsGenerated = 0

NextSession ==
  \/ SessStartRecording
  \/ SessStartCloses
  \/ SessStartGenerates
  \/ \E tabFound \in BOOLEAN : SessStartTab(tabFound)
  \/ \E success \in BOOLEAN : SessStartHost(success)
  \/ SessStopRecording
  \/ SessStopCheck
  \/ SessStopCaptures
  \/ SessStopStores
  \/ SessStopCloses
  \/ SessRecordingError
  \/ \E u \in 1..MaxSessionIds : SessUploadKey(u)

\* ========================================================================
\* The worker: the keys of the transcription and of the summary
\* ========================================================================

\* A key is a sequence of pieces of text; no piece is part of another.
KeyPieces == {"rec", "/", ".wav", ".mp3", ".webm", ".ogg", "-transcription.json"}

\* the extensions of /\.(wav|mp3|webm)$/
AudioExtensions == {".wav", ".mp3", ".webm"}

RECURSIVE KeysOfLen(_)
KeysOfLen(n) ==
  IF n = 0 THEN {<<>>}
  ELSE {Append(k, piece) : k \in KeysOfLen(n - 1), piece \in KeyPieces}

\* the keys a request can carry: `if (audioKey)` refuses the empty string
AudioKeys == UNION {KeysOfLen(n) : n \in 1..MaxKeyLen}

\* key.replace(/\.(wav|mp3|webm)$/, '-transcription.json'): a key that does
\* not end in one of the extensions is returned as it is
TranscriptionKeyOf(key) ==
  IF key /= <<>> /\ key[Len(key)] \in AudioExtensions
    THEN [key EXCEPT ![Len(key)] = "-transcription.json"]
    ELSE key

\* key.replace('-transcription.json', '-summary.json'): a string pattern
\* replaces its first occurrence
SummaryKeyOf(key) ==
  IF \E n \in 1..Len(key) : key[n] = "-transcription.json"
    THEN LET first == CHOOSE n \in 1..Len(key) :
                        /\ key[n] = "-transcription.json"
                        /\ \A m \in 1..(n - 1) : key[m] /= "-transcription.json"
         IN  [key EXCEPT ![first] = "-summary.json"]
    ELSE key

\* env.GIST_RECORDINGS.put(key, value)
R2Put(objects, key, value) ==
  [k \in DOMAIN objects \cup {key} |-> IF k = key THEN value ELSE objects[k]]

\* the extension has stored a recording under a key and posts the key
RecordingStored(key) ==
  /\ audioKey = <<>>
  /\ audioKey' = key
  /\ r2Objects' = R2Put(r2Objects, key, "recording")
  /\ UNCHANGED <<transcriptionKey, summaryKey>>
  /\ KeyStep

\* handleTranscribe with a key: the transcription is stored
HandleTranscribe ==
  /\ audioKey /= <<>>
  /\ transcriptionKey = <<>>
  /\ transcriptionKey' = TranscriptionKeyOf(audioKey)
  /\ r2Objects' = R2Put(r2Objects, transcriptionKey', "transcription")
  /\ UNCHANGED <<audioKey, summaryKey>>
  /\ KeyStep

\* handleSummarize with the audio key: the transcription is read from the
\* derived key (404 when there is none) and the summary is stored
HandleSummarize ==
  /\ audioKey /= <<>>
  /\ summaryKey = <<>>
  /\ TranscriptionKeyOf(audioKey) \in DOMAIN r2Objects
  /\ r2Objects[TranscriptionKeyOf(audioKey)] = "transcription"
  /\ summaryKey' = SummaryKeyOf(TranscriptionKeyOf(audioKey))
  /\ r2Objects' = R2Put(r2Objects, summaryKey', "summary")
  /\ UNCHANGED <<audioKey, transcriptionKey>>
  /\ KeyStep

\* nothing is stored
InitKeys ==
  /\ audioKey = <<>>
  /\ transcriptionKey = <<>>
  /\ summaryKey = <<>>
  /\ r2Objects = [k \in {} |-> "recording"]

NextKeys ==
  \/ \E key \in AudioKeys : RecordingStored(key)
  \/ HandleTranscribe
  \/ HandleSummarize

\* ========================================================================
\* Specifications
\* ========================================================================

InitExport == exportCalls = <<>>

NextExport ==
  \/ \E r \in RequestIds, t \in BOOLEAN, c \in BOOLEAN : OnExportToOneNote(r, t, c)
  \/ \E i \in 1..MaxExportRequests : ExportSucceeds(i)
  \/ \E i \in 1..MaxExportRequests : ExportFails(i)

Init ==
  /\ InitExport
  /\ InitReceiver
  /\ InitSender
  /\ InitRecording
  /\ InitRecorder
  /\ InitRace
  /\ InitStaging
  /\ InitKeys
  /\ InitSession

SpecExport == Init /\ [][NextExport]_vars

SpecReceiver == Init /\ [][NextReceiver]_vars

SpecPipeline == Init /\ [][NextPipeline]_vars

SpecSender == Init /\ [][NextSender]_vars

SpecRecording == Init /\ [][NextRecording]_vars

SpecRecorder == Init /\ [][NextRecorder]_vars

SpecRace == Init /\ [][NextRace]_vars

SpecHostError == Init /\ [][NextHostError]_vars

SpecStaging == Init /\ [][NextStaging]_vars

SpecKeys == Init /\ [][NextKeys]_vars

SpecSession == Init /\ [][NextSession]_vars

\* What the runtime does sooner or later in the offscreen document: the
\* recorder's onstop and the reader's onload run, a message on an open port
\* is delivered, a timer fires.  Disconnections and new documents are up to
\* the browser.
SenderFairness ==
  /\ WF_vars(\E connects \in BOOLEAN : RecorderOnStop(connects))
  /\ WF_vars(\E len \in 1..MaxPayloadLen : ReaderOnLoad(len))
  /\ WF_vars(\E m \in toBackground : BackgroundAcks(m))
  /\ WF_vars(\E m \in BagToSet(toOffscreen) : OsOnChunkAck(m))
  /\ WF_vars(ReconnectTimerFires)

SpecSenderFair == SpecSender /\ SenderFairness

\* What the background does by itself once an upload runs: storage answers,
\* the PUT resolves or rejects, the backoff timer fires.  Connections,
\* messages on the port and disconnections are up to the document.
ReceiverFairness ==
  /\ WF_vars(\E u \in 1..Len(uploads), t \in BOOLEAN : UploadMetadataRead(u, t))
  /\ WF_vars(\E u \in 1..Len(uploads) : UploadPutSucceeds(u) \/ UploadPutFails(u))
  /\ WF_vars(\E u \in 1..Len(uploads) : UploadBackoffElapsed(u))

SpecReceiverFair == SpecReceiver /\ ReceiverFairness

\* ------------------------------------------------------------------------
\* C5: an EXPORT_TO_ONENOTE message that repeats the requestId of an export
\* that had already completed is answered "Request already processed" and
\* issues no call to the OneNote API.
C5_ReplayRejected ==
  \A i \in 1..Len(exportCalls) :
    exportCalls[i].replayOfCompleted =>
      /\ exportCalls[i].response = "Request already processed"
      /\ exportCalls[i].upstreamCalls = 0

\* C6: an EXPORT_TO_ONENOTE message that arrives while another export is in
\* flight is answered "Export already in progress" and issues no call to the
\* OneNote API.
C6_ConcurrentRejected ==
  \A i \in 1..Len(exportCalls) :
    exportCalls[i].arrivedDuringExport =>
      /\ exportCalls[i].response = "Export already in progress"
      /\ exportCalls[i].upstreamCalls = 0

\* ========================================================================
\* Chunked transfer: the claims
\* ========================================================================

\* every index of the session's transfer is stored
AllStored(session) ==
  session.sid /= Null /\ session.stored = 0..(session.totalChunks - 1)

\* uploadFromPortSession executions started for a session
Handoffs(sid) == {u \in 1..Len(uploads) : uploads[u].sid = sid}

\* a step that handles a transfer_complete message
TransferCompleteStep == incoming'.completes = incoming.completes + 1

\* a step that handles a port's disconnection
DisconnectStep == bgOpen' /= bgOpen /\ bgOpen' \subseteq bgOpen

\* C1: when a transfer_complete arrives after all N distinct chunk indices
\* of the session have been received, in whatever order and however often,
\* and no upload is running, the receiver assembles a payload and it is the
\* recording's bytes in index order.
C1_AnyOrderSamePayload ==
  [][(/\ TransferCompleteStep
      /\ AllStored(currentUploadSession)
      /\ uploadInProgressId = Null)
     => /\ Len(uploads') = Len(uploads) + 1
        /\ uploads'[Len(uploads')].blob =
             Payload(currentUploadSession.timestamp, currentUploadSession.size)]_vars

\* C7: when a port disconnects while the session holds as many chunks as
\* the transfer has and no transfer_complete was delivered, the session has
\* been handed to uploadFromPortSession exactly once when the handler ends.
C7_DisconnectCompletes ==
  [][(/\ DisconnectStep
      /\ currentUploadSession.sid /= Null
      /\ currentUploadSession.receivedChunks = currentUploadSession.totalChunks
      /\ incoming.completes = 0)
     => Cardinality({u \in 1..Len(uploads') :
                       uploads'[u].sid = currentUploadSession.sid}) = 1]_vars

\* C8: whatever completion signals arrive (transfer_complete once or twice,
\* a disconnection, in any order), no session is handed to
\* uploadFromPortSession more than once, so its payload is stored at most
\* once.
C8_HandedAtMostOnce ==
  \A sid \in 1..sessionCount :
    /\ Cardinality(Handoffs(sid)) <= 1
    /\ Cardinality({u \in Handoffs(sid) : uploads[u].outcome = "success"}) <= 1

\* a transfer_complete and a disconnection both reached a session whose
\* upload is running
C8_Witness ==
  /\ Len(uploads) = 1
  /\ UploadRunning(1)
  /\ currentUploadSession.sid = uploads[1].sid
  /\ incoming.completes >= 1
  /\ portCount >= 1
  /\ bgOpen = {}

\* the number of chunks the document announced for its transfer
Announced(doc) ==
  LET inits == {m \in toBackground : m.type = "init_upload" /\ m.timestamp = doc}
  IN  IF inits = {} THEN 0 ELSE (CHOOSE m \in inits : TRUE).totalChunks

C10_InitReplaces ==
  /\ currentUploadSession.sid /= Null =>
       /\ currentUploadSession.stored = {} =>
            /\ currentUploadSession.receivedChunks = 0
            /\ Len(currentUploadSession.chunks) = currentUploadSession.totalChunks
       /\ \A k \in 1..Len(currentUploadSession.chunks) :
            currentUploadSession.chunks[k] /= Hole => (k - 1) \in currentUploadSession.stored
  /\ \A u \in 1..Len(uploads) :
       uploads[u].blob =
         Assemble([k \in 1..TotalChunks(uploads[u].size) |->
                     IF (k - 1) \in uploads[u].stored
                       THEN ChunkOf(Payload(uploads[u].timestamp, uploads[u].size), k - 1)
                       ELSE Hole])

\* an init_upload arrived again when one of the transfer's two chunks was stored
C10_Witness ==
  /\ sessionCount = 2
  /\ incoming.timestamp = 1
  /\ Len(incoming.delivered) = 2
  /\ incoming.delivered[1] + incoming.delivered[2] = 1
  /\ currentUploadSession.sid = 2
  /\ currentUploadSession.receivedChunks = 0

\* ========================================================================
\* Recording: the claims
\* ========================================================================

\* a handleStartRecording execution that passed the guard, set the lock and
\* has not reached its finally block
InProtectedBody(e) ==
  /\ executions[e].kind = "start"
  /\ executions[e].ran
  /\ executions[e].pc \notin {"lock_store", "finally", "settling", "done"}

\* every execution, of a request or nested, has finished
AllFinished == \A e \in Executions : executions[e].pc = "done"

\* C2: a START_RECORDING request that arrives while an earlier one is not
\* answered yet does not run handleStartRecording, creates no offscreen
\* document, and is answered as the earlier one is.
C2_PendingStartShared ==
  \A e \in StartRequests :
    LET original == executions[e].pendingStart
    IN  original /= Null =>
          /\ ~executions[e].ran
          /\ executions[e].created = 0
          /\ (executions[e].response /= "none" /\ executions[original].response /= "none")
               => executions[e].response = executions[original].response

\* C3: no two executions of handleStartRecording are in the body that
\* recordingLock protects at the same time.
C3_OneStartInBody ==
  Cardinality({e \in StartRequests : InProtectedBody(e)}) <= 1

\* C4: when a STOP_RECORDING arrived while a START_RECORDING was pending,
\* no START_RECORDING arrived after it and every execution has finished,
\* isRecording is false in memory and in storage.
C4_StopCancelsPendingStart ==
  \A s \in StopRequests :
    (/\ executions[s].pendingStart /= Null
     /\ \A e \in StartRequests : e < s
     /\ AllFinished)
    => (~isRecording /\ ~storedIsRecording)

\* C11: a STOP_RECORDING that arrives when nothing is recording and no
\* request is being handled, and that no other request follows, is
\* answered "stopped", and no step of its handleStopRecording changes the
\* recording flags, the offscreen document or the flags that describe it.
C11_StopWhenIdle ==
  [][\A s \in StopRequests :
       (/\ executions[s].idle
        /\ executions[s].pc /= "done"
        /\ executions'[s].pc /= executions[s].pc
        /\ s = Len(executions))
       => /\ UNCHANGED <<isRecording, storedIsRecording, hostRecording, documentOpen,
                         offscreenCreated, isOffscreenInitialized>>
          /\ executions'[s].pc = "done" => executions'[s].response = "stopped"]_vars

\* the handleStopRecording executions that handleStartRecording e called
StopsCalledBy(e) ==
  {s \in Executions : executions[s].kind = "stop" /\ executions[s].caller = e}

C13_FailedStartIsIdle ==
  [][\A e \in StartRequests :
       (/\ executions[e].pc = "settling"
        /\ executions[e].result = "err"
        /\ executions'[e].pc = "done")
       => /\ ~isRecording
          /\ ~storedIsRecording
          /\ ~documentOpen
          /\ ~offscreenCreated
          /\ ~isOffscreenInitialized
          /\ ~recordingLock]_vars

\* C14: when a handleStopRecording returns, isRecording is false in memory
\* and in storage.
C14_StopEndsNotRecording ==
  [][\A s \in Executions :
       (/\ executions[s].kind = "stop"
        /\ executions[s].pc = "return"
        /\ executions'[s].pc = "done")
       => (~isRecording /\ ~storedIsRecording)]_vars

\* the uploadFromPortSession executions in flight
UploadsInFlight == {u \in 1..Len(uploads) : UploadRunning(u)}

\* C15: at most one uploadFromPortSession execution is in flight at any
\* time: no completion path starts one while uploadInProgressId is held.
C15_SingleUploadOwner == Cardinality(UploadsInFlight) <= 1

StageOver(stage) == stage \in {"ok", "failed"}

\* C17: for an upload that was stored, once transcribeFromR2 has ended
\* /api/transcribe was called exactly once, with the key the upload was
\* stored under; once summarizeTranscription has ended after a transcription
\* that succeeded /api/summarize was called exactly once, and it is never
\* called without one.  The number of attempts the upload took plays no
\* part.
C17_StagesExactlyOnce ==
  /\ \A u \in 1..Len(uploads) :
       LET x == uploads[u]
       IN  /\ x.transcriptions <= 1
           /\ x.summaries <= 1
           /\ x.transcriptions = 1 =>
                (x.outcome = "success" /\ x.artifact = x.blob /\ x.transcribeKey = KeyOf(x))
           /\ (x.outcome = "success" /\ StageOver(x.transcribe)) => x.transcriptions = 1
           /\ x.summaries = 1 => x.transcribe = "ok"
           /\ (x.transcribe = "ok" /\ StageOver(x.summarize)) => x.summaries = 1
  /\ \A sid \in 1..sessionCount :
       Cardinality({u \in Handoffs(sid) : uploads[u].transcriptions >= 1}) <= 1

\* the delays waited after the first n failed attempts
WaitedAfter(n) == RETRY_DELAY_BASE * ((2 ^ (n + 1)) - 2)

\* C18: an upload calls uploadToR2 at most MAX_RETRIES times; while it
\* retries it has waited base * 2^k after its k-th failure; RECORDING_WARNING
\* is sent only by an upload that failed and has ended, which waited after
\* every failure but the last, and at the step that sends it the upload
\* guard is null.
C18_BoundedRetries ==
  [][\A u \in 1..Len(uploads') :
       LET x == uploads'[u]
       IN  /\ x.attempts <= MAX_RETRIES
           /\ x.pc \in {"put", "backoff"} =>
                (x.retryCount < MAX_RETRIES /\ x.delay = WaitedAfter(x.retryCount))
           /\ x.warning =>
                /\ x.outcome = "failed"
                /\ x.pc = "done"
                /\ ~x.notified
                /\ x.delay = WaitedAfter(MAX_RETRIES - 1)
           /\ (x.outcome = "failed" /\ x.attempts = MAX_RETRIES) => x.warning
           /\ (u <= Len(uploads) /\ x.warning /\ ~uploads[u].warning)
                => uploadInProgressId' = Null]_vars

\* an upload gave up after MAX_RETRIES calls of uploadToR2
C18_Witness ==
  \E u \in 1..Len(uploads) :
    /\ uploads[u].warning
    /\ uploads[u].attempts = MAX_RETRIES
    /\ uploadInProgressId = Null

C20_StageFailureIsolated ==
  [][\A u \in 1..Len(uploads) :
       /\ (\/ (uploads'[u].transcribe = "failed" /\ uploads[u].transcribe /= "failed")
           \/ (uploads'[u].summarize = "failed" /\ uploads[u].summarize /= "failed"))
          => /\ uploads'[u].attempts = uploads[u].attempts
             /\ uploads'[u].artifact = uploads[u].artifact
             /\ uploads'[u].outcome = "success"
             /\ uploads'[u].notified
             /\ ~uploads'[u].warning
             /\ Len(uploads') = Len(uploads)
             /\ UNCHANGED <<uploadInProgressId, currentUploadSession>>
       /\ (uploads[u].transcribe = "failed" \/ uploads[u].summarize = "failed")
          => /\ uploads'[u].outcome = "success"
             /\ uploads'[u].pc = "done"
             /\ uploads'[u].attempts = uploads[u].attempts
             /\ uploads'[u].artifact = uploads[u].blob]_vars

\* one stored upload's transcription failed, another's summary failed
C20_Witness ==
  /\ \E u \in 1..Len(uploads) :
       uploads[u].transcribe = "failed" /\ uploads[u].outcome = "success"
  /\ \E u \in 1..Len(uploads) :
       uploads[u].summarize = "failed" /\ uploads[u].outcome = "success"

\* ========================================================================
\* The transfer after a disconnection: the claims
\* ========================================================================

\* the document has reconnected with chunks unacknowledged: the port is
\* open and carries nothing of the transfer
Reconnected ==
  /\ docId /= Null
  /\ senderPhase = "sent"
  /\ pendingChunks > 0
  /\ backgroundPort /= Null
  /\ backgroundPort \in osOpen
  /\ \A m \in toBackground : m.port /= backgroundPort \/ m.type /= "audio_chunk"
  /\ \A m \in BagToSet(toOffscreen) : m.port /= backgroundPort

\* C21: a document that has reconnected with chunks unacknowledged resumes
\* sending: unless the port disconnects again or the document is replaced,
\* every chunk is eventually acknowledged and transfer_complete is posted.
C21_ReconnectCompletes ==
  \A d \in 1..MaxDocuments :
    (docId = d /\ Reconnected)
      ~> \/ docId /= d
         \/ backgroundPort = Null
         \/ /\ pendingChunks = 0
            /\ \E n \in 1..Len(transferCompletes) : transferCompletes[n].doc = d

\* C22: a document whose onstop found no port and could not open one has
\* handed its recording to the message bus: it sent a message that carries
\* the recording, not an error.
C22_FallsBackToMessageBus ==
  \A d \in 1..MaxDocuments :
    (\E m \in runtimeMessages : m.doc = d) =>
      \E m \in runtimeMessages : m.doc = d /\ m.type /= "RECORDING_ERROR"

\* ========================================================================
\* Chunks and slots: the claims
\* ========================================================================

\* C23: a session announces ceil(size / CHUNK_SIZE) chunks, every chunk it
\* stores has an index below that number and at most CHUNK_SIZE bytes, and
\* a session handed over with every index stored was assembled to the
\* recording's bytes, as many as the declared size.
C23_ChunkingRoundTrip ==
  /\ currentUploadSession.sid /= Null =>
       /\ currentUploadSession.totalChunks * CHUNK_SIZE >= currentUploadSession.size
       /\ (currentUploadSession.totalChunks - 1) * CHUNK_SIZE < currentUploadSession.size
       /\ \A i \in currentUploadSession.stored :
            /\ i \in 0..(currentUploadSession.totalChunks - 1)
            /\ Len(currentUploadSession.chunks[i + 1]) \in 1..CHUNK_SIZE
  /\ \A u \in 1..Len(uploads) :
       uploads[u].stored = 0..(TotalChunks(uploads[u].size) - 1) =>
         /\ uploads[u].blob = Payload(uploads[u].timestamp, uploads[u].size)
         /\ Len(uploads[u].blob) = uploads[u].size

\* recordings of every length up to the longest were assembled, among them
\* one that fills its chunks and one with a shorter last chunk
C23_Witness ==
  \E u, v \in 1..Len(uploads) :
    /\ uploads[u].size = CHUNK_SIZE
    /\ uploads[v].size = MaxPayloadLen
    /\ uploads[u].stored = {0}
    /\ uploads[v].stored = 0..(TotalChunks(MaxPayloadLen) - 1)
    /\ uploads[v].blob = Payload(uploads[v].timestamp, MaxPayloadLen)

\* ========================================================================
\* The recorder's safety timeout: the claims
\* ========================================================================

C25_EnsureFailureLeavesNoHost ==
  [][\A e \in StartRequests :
       /\ executions'[e].attempt <= EnsureAttempts
       /\ executions'[e].created <= EnsureAttempts
       /\ executions'[e].ensureFailed => executions'[e].result /= "ok"
       /\ (/\ executions[e].ensureFailed
           /\ executions[e].pc = "finally"
           /\ executions'[e].pc /= "finally")
          => /\ ~documentOpen'
             /\ ~offscreenCreated'
             /\ ~isOffscreenInitialized']_vars

\* a start that has its document created and has not yet had the answer to
\* START_RECORDING from it
AboutToUse(e) ==
  /\ e \in StartRequests
  /\ executions[e].pc \in {"ready", "stream", "starting"}

\* C27: createDocument is called only when no document is open, and a step
\* that closes the document is never taken while a start has created it and
\* is about to use it.
C27_CreateAfterDestroy ==
  [][/\ \A e \in StartRequests :
          (executions[e].pc = "create" /\ executions'[e].pc /= "create")
            => ~documentOpen
     /\ (documentOpen /\ ~documentOpen')
          => \A e \in StartRequests : ~AboutToUse(e)]_vars

\* closeOffscreenDocument returns to the execution that called it
CloseReturnsTo(e) ==
  \/ executions[e].pc = "close_check" /\ executions'[e].pc \notin {"close_check", "close_do"}
  \/ executions[e].pc = "close_wait" /\ executions'[e].pc /= "close_wait"

\* C28: closeOffscreenDocument calls closeDocument only after
\* hasOffscreenDocument() found a document; when it found none it closes
\* nothing, stops nothing and returns; and whenever it returns
\* offscreenCreated and isOffscreenInitialized are both false.
C28_CloseResetsFlags ==
  [][\A e \in Executions :
       /\ (executions[e].pc = "close_check" /\ executions'[e].pc = "close_do")
            => documentOpen
       /\ (executions[e].pc = "close_check" /\ ~documentOpen /\ executions'[e].pc /= "close_check")
            => /\ executions'[e].pc = executions[e].after
               /\ UNCHANGED <<documentOpen, hostRecording, hostMessages>>
       /\ CloseReturnsTo(e)
            => (~offscreenCreated' /\ ~isOffscreenInitialized')]_vars

\* C26: once both promises of an attempt have settled, documentReady is
\* true exactly when OFFSCREEN_DOCUMENT_READY arrived within READY_TIMEOUT
\* or the pong arrived within PING_TIMEOUT.
C26_EitherSignalSuffices ==
  (readyPromise /= "pending" /\ pingPromise /= "pending") =>
    (raceResult = "true" <=> (readyPromise = "true" \/ pingPromise = "true"))

\* C29: a chunk_ack handled while pendingChunks is already zero leaves it at
\* zero and sends nothing: no transfer_complete is posted for it.
C29_LateAckIgnored ==
  [][(acksHandled' = acksHandled + 1 /\ pendingChunks = 0) =>
       /\ pendingChunks' = 0
       /\ toBackground' = toBackground
       /\ transferCompletes' = transferCompletes]_vars

\* C30: the session's receivedChunks is the number of distinct chunk indices
\* stored and is never more than totalChunks.
C30_ReceivedCountsDistinct ==
  currentUploadSession.sid /= Null =>
    /\ currentUploadSession.receivedChunks
         = Cardinality(currentUploadSession.stored)
    /\ currentUploadSession.receivedChunks <= currentUploadSession.totalChunks

\* a session whose sender is gone before every chunk was counted: no port
\* is open and no upload runs
Orphaned(s) ==
  /\ currentUploadSession.sid = s
  /\ currentUploadSession.receivedChunks /= currentUploadSession.totalChunks
  /\ bgOpen = {}
  /\ UploadsInFlight = {}

\* C31: the step that ends an upload, in success or in failure, leaves
\* currentUploadSession null, and a session that can no longer complete
\* because its sender vanished is eventually released.
C31_SessionNeverDangles ==
  /\ [][\A u \in 1..Len(uploads) :
          (UploadRunning(u) /\ uploads'[u].outcome /= "none")
             => currentUploadSession' = NoSession]_vars
  /\ \A s \in 1..MaxSessions : Orphaned(s) ~> (currentUploadSession.sid /= s)

C40_FlagsTrackHost ==
  (offscreenCreated /\ isOffscreenInitialized) => documentOpen

\* C37: when every STORE_AUDIO_CHUNK handler of a large upload has finished,
\* all of them having arrived after the upload was prepared, the stored
\* record counts all of them and holds all their chunks.
C37_StagingLosesNoUpdate ==
  (/\ prepares >= 1
   /\ \A i \in StagedIndexes :
        storeHandlers[i].pc = "done" /\ storeHandlers[i].prepared = prepares)
    => /\ largeUpload.receivedChunks = MaxStagedChunks
       /\ largeUpload.chunks = StagedIndexes

\* C38: a safety timeout stops a recording only when that recording has
\* itself run for MAX_RECORDING_DURATION.
C38_TimerStopsOwnRecording ==
  [][forcedStops' = forcedStops + 1 => recordingAge >= MAX_RECORDING_DURATION]_vars

\* C34: the transcription is stored under a key that ends in
\* -transcription.json and the summary under one that ends in -summary.json;
\* the two keys and the audio key are pairwise distinct, and the recording
\* is still what is stored under the audio key.
C34_ArtifactKeysDistinct ==
  /\ transcriptionKey /= <<>> =>
       /\ transcriptionKey[Len(transcriptionKey)] = "-transcription.json"
       /\ transcriptionKey /= audioKey
  /\ summaryKey /= <<>> =>
       /\ summaryKey[Len(summaryKey)] = "-summary.json"
       /\ summaryKey /= audioKey
       /\ summaryKey /= transcriptionKey
  /\ audioKey /= <<>> => r2Objects[audioKey] = "recording"

\* C35: when an upload ends while currentUploadSession is a session that a
\* later init_upload installed, that session and the chunks it has received
\* stay as they are.
C35_LaterSessionSurvives ==
  [][\A u \in 1..Len(uploads) :
       (/\ UploadRunning(u)
        /\ uploads'[u].outcome /= "none"
        /\ currentUploadSession.sid /= Null
        /\ currentUploadSession.sid /= uploads[u].sid)
         => currentUploadSession' = currentUploadSession]_vars

\* a step that delivers a completion signal, transfer_complete or the
\* port's disconnection, to a session whose chunks were all counted
CompletionDelivered ==
  /\ currentUploadSession.sid /= Null
  /\ currentUploadSession.receivedChunks = currentUploadSession.totalChunks
  /\ \/ incoming'.completes = incoming.completes + 1
     \/ bgOpen' /= bgOpen /\ bgOpen' \subseteq bgOpen

\* C36: when a completion signal is delivered to a session whose chunks
\* were all received, the session has been handed to uploadFromPortSession
\* by the end of that step.
C36_CompletionNeverDropped ==
  [][CompletionDelivered
       => \E u \in 1..Len(uploads') : uploads'[u].sid = currentUploadSession.sid]_vars

\* C32: when a handleStopRecording that had a session to stop returns
\* success, sessionId and currentTabInfo are null and lastSessionId in
\* storage is the id of that session.
C32_StopClearsSessionId ==
  [][(/\ sessionStop.pc \notin {"idle", "returned"}
      /\ sessionStop'.pc = "returned"
      /\ sessionStop.stopping /= Null)
       => /\ sessionId' = Null
          /\ currentTabInfo' = Null
          /\ storedIds'.lastSessionId = sessionStop.stopping]_vars

\* C39: the key of a recording carries the session id of the session that
\* recorded it.
C39_KeyCarriesOwnSessionId ==
  \A u \in 1..Len(sessionUploads) :
    sessionUploads[u].key /= Null
      => sessionUploads[u].key = sessionUploads[u].producer

====
